---- MODULE Spec2Model ----
(***************************************************************************)
(* hookline: the approval rendezvous between the PreToolUse hook process   *)
(* (notify/approval.py, _handle_pre_tool_use) and the serve daemon         *)
(* (hookline/serve.py, _handle_button -> _handle_approval_callback); the   *)
(* durable key-value state they share (notify/state.py); the debounce      *)
(* engine and the hook's main() (hookline/debounce.py, __main__.py); and   *)
(* the scheduler with its cron expressions (hookline/scheduler.py); the     *)
(* relay inbox (hookline/relay.py); and the daemon's poll loop, serve().   *)
(*                                                                         *)
(* Each component has its own specification (Spec, SpecKV, SpecStore,      *)
(* SpecDebounce, SpecStamp, SpecMain, SpecCron, SpecReg, SpecSched,        *)
(* SpecInbox, SpecServe) in                                                *)
(* which the other components are at rest; SpecWait is Spec with the hook  *)
(* process kept running. Processes are separate OS processes: an action    *)
(* is one access to what they share (the state directory, the named        *)
(* pipes, the PID file); process-local work is folded into the step that   *)
(* follows it.                                                             *)
(***************************************************************************)
EXTENDS Naturals, Integers, Sequences, FiniteSets, TLC

(* ------------------------------------------------------------------ *)
(* Bounds and inputs                                                  *)
(* ------------------------------------------------------------------ *)

\* Button presses the daemon receives in one run.
MaxPresses == 2

\* Hook processes (one PreToolUse invocation each).
Hooks == {"h1"}

\* Values uuid4().hex[:12] may take.
ApprovalIds == {"a1", "a2"}

\* An approval a killed hook may have left behind (its pipe and record are
\* never cleaned up), and the inode of its pipe.
OrphanId == "a2"
OrphanInode == "orphan"
Inodes == Hooks \cup {OrphanInode}

\* TELEGRAM_CHAT_ID, and the Telegram users that may press a button.
CHAT_ID == "chat"
Senders == {"chat", "boss"}

\* callback_data prefixes of the two approval buttons.
Prefixes == {"approve", "block"}

NoInode == "none"
NoDoc == [absent |-> TRUE]

VARIABLES
    APPROVAL_USER,  \* config: approval_user or CHAT_ID
    pidFile,        \* SERVE_PID_FILE exists
    serveAlive,     \* the process the PID file names is alive
    path,           \* _approvals/approval_<id>: the FIFO inode linked there
    fifo,           \* per inode: bytes buffered, open read/write ends
    record,         \* _approvals/<id>.json: the ApprovalRequest document
    auditLog,       \* AUDIT_LOG, one entry per line
    hook,           \* per hook process: its position and locals
    stdout,         \* per hook process: the decisions it printed
    removed,        \* per hook process: unlink / _clear_state calls of its cleanup
    announced,      \* approval ids whose approve/block request reached the chat
    warned,         \* hooks that sent the "daemon offline" warning
    daemon,         \* the serve daemon's position in the button handler
    answers,        \* what the daemon answered to each press, in order
    presses,        \* button presses received so far
    docName,        \* {project}/{name}.json: the file linked there
    tmpName,        \* {project}/{name}.tmp (every writer's): the file linked there
    fileContent,    \* per file: its content
    lockHolder,     \* the process holding flock(LOCK_EX) on {name}.lock
    proc,           \* per process using the document: its position and locals
    count0,         \* the count the document held when the processes started
    sfile,          \* one state file as _read_state finds it
    scalls,         \* the calls one process made on it, with what each returned
    rounds,         \* per process: debounce calls it has started
    tally,          \* what the debounce calls that returned earlier did
    SUPPRESS,       \* config: event names never notified
    batch,          \* {project}/debounce.json as the hook's main() sees it
    mhook,          \* per hook process running main(): its event and position
    eventsSeen,     \* events delivered to hook processes so far
    cronInput,      \* a cron expression handed to CronExpr(...)
    cronParsed,     \* what CronExpr(...) made of it
    cronAt,         \* the datetime matches(dt) was called with on that object
    cronMatched,    \* what matches(dt) returned
    tasks,          \* _tasks: the registry, each task with its in-memory last_run
    runState,       \* scheduler.json: task name -> last-run timestamp
    clock,          \* the last value read from the wall clock (epoch seconds)
    ticks,          \* tick() calls so far
    fired,          \* handler calls so far, in order
    tickLog,        \* the "now" of every tick so far
    lastReg,        \* the last register_task call and whether it raised
    regs,           \* register_task calls so far
    restarts,       \* daemon restarts so far
    wall,           \* the wall clock (epoch seconds)
    wallTicks,      \* times the clock was seen to move
    dfile,          \* {project}/debounce.json: the batch with its timestamps
    acc,            \* per hook process in _debounce_accumulate: position, now
    stamps,         \* the timestamps of the events accumulated into the batch
    checks,         \* the _debounce_should_flush calls made, with their results
    inboxExists,    \* {project}/inbox.jsonl exists
    inboxLines,     \* its lines
    inboxLog,       \* the relay calls made on the project, with what each returned
    srv,            \* serve(): its position, offset and the poll result it iterates
    srvPid,         \* SERVE_PID_FILE as serve() writes and removes it
    tgQueue,        \* updates the Telegram server holds unconfirmed
    tgSent,         \* updates that have arrived at the Telegram server so far
    srvTrace        \* the calls serve() made, in order, with how each ended

approvalVars == <<APPROVAL_USER, pidFile, serveAlive, path, fifo, record, auditLog,
                  hook, stdout, removed, announced, warned, daemon, answers,
                  presses>>

kvVars == <<docName, tmpName, fileContent, lockHolder, proc, count0>>

storeVars == <<sfile, scalls>>
debounceVars == <<rounds, tally>>
mainVars == <<SUPPRESS, batch, mhook, eventsSeen>>
cronVars == <<cronInput, cronParsed, cronAt, cronMatched>>
schedVars == <<tasks, runState, clock, ticks, fired, tickLog, lastReg, regs, restarts>>
stampVars == <<wall, wallTicks, dfile, acc, stamps, checks>>
inboxVars == <<inboxExists, inboxLines, inboxLog>>
serveVars == <<srv, srvPid, tgQueue, tgSent, srvTrace>>

\* What the approval rendezvous leaves alone, and what the key-value
\* operations leave alone, and so on for every component.
restOfApproval == <<kvVars, storeVars, debounceVars, mainVars, cronVars, schedVars, stampVars,
    inboxVars, serveVars>>
restOfKV == <<approvalVars, storeVars, debounceVars, mainVars, cronVars, schedVars, stampVars,
    inboxVars, serveVars>>
restOfStore == <<approvalVars, kvVars, debounceVars, mainVars, cronVars, schedVars, stampVars,
    inboxVars, serveVars>>
restOfDebounce == <<approvalVars, storeVars, mainVars, cronVars, schedVars, stampVars,
    inboxVars, serveVars>>
restOfMain == <<approvalVars, kvVars, storeVars, debounceVars, cronVars, schedVars, stampVars,
    inboxVars, serveVars>>
restOfCron == <<approvalVars, kvVars, storeVars, debounceVars, mainVars, schedVars, stampVars,
    inboxVars, serveVars>>
restOfSched == <<approvalVars, kvVars, storeVars, debounceVars, mainVars, cronVars, stampVars,
    inboxVars, serveVars>>
restOfStamp == <<approvalVars, kvVars, storeVars, debounceVars, mainVars, cronVars,
                 schedVars, inboxVars, serveVars>>
restOfInbox == <<approvalVars, kvVars, storeVars, debounceVars, mainVars, cronVars,
                 schedVars, stampVars, serveVars>>
restOfServe == <<approvalVars, kvVars, storeVars, debounceVars, mainVars, cronVars,
                 schedVars, stampVars, inboxVars>>

vars == <<approvalVars, kvVars, storeVars, debounceVars, mainVars, cronVars,
          schedVars, stampVars, inboxVars, serveVars>>

fsVars == <<path, fifo, record>>
daemonVars == <<daemon, answers, presses>>

(* ------------------------------------------------------------------ *)
(* Pure helpers                                                       *)
(* ------------------------------------------------------------------ *)

\* _output_decision: the JSON object printed; "reason" only when non-empty.
OutputDecision(decision, reason) ==
    IF reason # "" THEN [decision |-> decision, reason |-> reason]
                   ELSE [decision |-> decision]

\* Mutant: anything that is not "block" is let through.
DecisionOfDefaultAllow(decision_raw) ==
    IF decision_raw = "block" THEN "block" ELSE "approve"

\* decision_raw in ("approve", "block") ? decision_raw : "block"
DecisionOf(decision_raw) ==
    IF decision_raw \in {"approve", "block"} THEN decision_raw ELSE "block"

\* Mutant: the reason is dropped.
ReasonOfNone(decision_raw) == ""

\* reason = "Timed out" if not decision_raw else ""
ReasonOf(decision_raw) ==
    IF decision_raw = "" THEN "Timed out" ELSE ""

\* The document the hook persists for an approval (the fields the daemon
\* and the hook read back).
NewRecord(id) ==
    [approval_id |-> id, pipe_path |-> id, decided_by |-> "", decision |-> ""]

\* _read_state: {} when the file is absent.
ReadState(id) == record[id]

\* select() on the read end: data buffered, or every writer gone after one
\* had opened since the reader did (EOF).
Readable(i) ==
    \/ fifo[i].buf # ""
    \/ fifo[i].writers = 0 /\ fifo[i].hadWriter

EmptyFifo == [buf |-> "", readers |-> 0, writers |-> 0, hadWriter |-> FALSE]

InitHook ==
    [pc |-> "start", mode |-> "", approval_id |-> "", created |-> FALSE,
     decision_raw |-> "", timedOut |-> FALSE, decision |-> "", reason |-> "",
     user_name |-> "", audit |-> "", raised |-> FALSE, persisted |-> ""]

IdleDaemon ==
    [pc |-> "idle", approval_id |-> "", decision |-> "", user_name |-> "",
     state |-> NoDoc, fd |-> NoInode]

\* Processes that use one document of the state directory.
Procs == {"p1", "p2", "p3"}

\* Files a run may create: the one the document starts as, and one per
\* process (what its open(tmp, "w") creates when no tmp file exists).
FileIds == Procs \cup {"f0"}
NoFile == "none"

\* A file's content: not valid JSON (empty, just truncated), or the document
\* {"count": count}.
Truncated == [valid |-> FALSE, count |-> 0]
Valid(n) == [valid |-> TRUE, count |-> n]

InitProc == [pc |-> "start", op |-> "", data |-> 0, fd |-> NoFile, raised |-> FALSE]

\* No process uses the document.
KVIdle ==
    /\ docName = NoFile
    /\ tmpName = NoFile
    /\ fileContent = [f \in FileIds |-> Truncated]
    /\ lockHolder = "none"
    /\ proc = [p \in Procs |-> [InitProc EXCEPT !.pc = "done"]]
    /\ count0 = 0

\* The approval subsystem at rest.
ApprovalIdle ==
    /\ APPROVAL_USER = CHAT_ID
    /\ serveAlive = FALSE
    /\ pidFile = FALSE
    /\ path = [a \in ApprovalIds |-> NoInode]
    /\ record = [a \in ApprovalIds |-> NoDoc]
    /\ fifo = [i \in Inodes |-> EmptyFifo]
    /\ auditLog = <<>>
    /\ hook = [h \in Hooks |-> [InitHook EXCEPT !.pc = "done"]]
    /\ stdout = [h \in Hooks |-> <<>>]
    /\ removed = [h \in Hooks |-> [pipe |-> 0, record |-> 0]]
    /\ announced = {}
    /\ warned = {}
    /\ daemon = IdleDaemon
    /\ answers = <<>>
    /\ presses = 0

\* No call was made on the state file.
StoreIdle ==
    /\ sfile = "absent"
    /\ scalls = <<>>

\* No debounce call was made.
NoTally == [accumulated |-> 0, flushed |-> 0, batches |-> 0]
DebounceIdle ==
    /\ rounds = [p \in Procs |-> 0]
    /\ tally = NoTally

\* Hook processes that run main() for an event other than PreToolUse.
MainHooks == {"m1", "m2"}

NoBatch == [count |-> 0, stale |-> FALSE]
InitMainHook ==
    [pc |-> "idle", event |-> "", handled |-> FALSE, flushed |-> <<>>,
     unconditional |-> FALSE, accumulated |-> FALSE, sent |-> <<>>,
     raised |-> FALSE]

\* No event has reached main().
MainIdle ==
    /\ SUPPRESS = {}
    /\ batch = NoBatch
    /\ mhook = [h \in MainHooks |-> InitMainHook]
    /\ eventsSeen = 0

\* One part of a cron field: "*", N, N-M, or base/step with base "*" or N.
StarBase == -1
Star == [kind |-> "star", a |-> 0, b |-> 0]
Single(n) == [kind |-> "single", a |-> n, b |-> 0]
Range(lo, hi) == [kind |-> "range", a |-> lo, b |-> hi]
Step(base, step) == [kind |-> "step", a |-> base, b |-> step]

\* "* * * * *"
EveryMinute == <<<<Star>>, <<Star>>, <<Star>>, <<Star>>, <<Star>>>>
NotParsed == [status |-> "none"]

\* No cron expression is being parsed.
NoTime == -1
CronIdle ==
    /\ cronInput = EveryMinute
    /\ cronParsed = NotParsed
    /\ cronAt = NoTime
    /\ cronMatched = FALSE

\* Names tasks are registered under.
TaskNames == {"t1", "t2"}

\* 1970-01-02T00:00:00Z, a Friday.
Epoch == 86400

NoTask == [registered |-> FALSE, cron_expr |-> NotParsed, interval_seconds |-> 0,
           last_run |-> 0]
NoReg == [name |-> "", cron |-> FALSE, cron_ok |-> FALSE, interval_minutes |-> 0,
          raised |-> FALSE]

\* No task is registered and nothing was persisted.
SchedIdle ==
    /\ tasks = [n \in TaskNames |-> NoTask]
    /\ runState = [n \in TaskNames |-> 0]
    /\ clock = Epoch
    /\ ticks = 0
    /\ fired = <<>>
    /\ tickLog = <<>>
    /\ lastReg = NoReg
    /\ regs = 0
    /\ restarts = 0

\* Hook processes that call _debounce_accumulate.
StampHooks == {"s1", "s2"}

\* The clock when the first of them starts.
WallStart == 100

NoDFile == [exists |-> FALSE, first_time |-> 0, last_time |-> 0]
InitAcc == [pc |-> "idle", now |-> 0]

\* No event is being accumulated and no batch is pending.
StampIdle ==
    /\ wall = WallStart
    /\ wallTicks = 0
    /\ dfile = NoDFile
    /\ acc = [h \in StampHooks |-> [InitAcc EXCEPT !.pc = "done"]]
    /\ stamps = {}
    /\ checks = <<>>

\* No relay call has been made and the project has no inbox.
InboxIdle ==
    /\ inboxExists = FALSE
    /\ inboxLines = <<>>
    /\ inboxLog = <<>>

\* serve() has not been called.
InitServe ==
    [pc |-> "start", offset |-> 0, result |-> <<>>, polls |-> 0]
ServeIdle ==
    /\ srv = InitServe
    /\ srvPid = FALSE
    /\ tgQueue = <<>>
    /\ tgSent = 0
    /\ srvTrace = <<>>

\* Every component but c is at rest.
IdleExcept(c) ==
    /\ c = "approval" \/ ApprovalIdle
    /\ c \in {"kv", "debounce"} \/ KVIdle
    /\ c = "store" \/ StoreIdle
    /\ c = "debounce" \/ DebounceIdle
    /\ c = "main" \/ MainIdle
    /\ c = "cron" \/ CronIdle
    /\ c = "sched" \/ SchedIdle
    /\ c = "stamp" \/ StampIdle
    /\ c = "inbox" \/ InboxIdle
    /\ c = "serve" \/ ServeIdle

Init ==
    /\ IdleExcept("approval")
    /\ APPROVAL_USER \in {CHAT_ID, "boss"}
    /\ serveAlive \in BOOLEAN
    /\ pidFile \in BOOLEAN
    /\ serveAlive => pidFile
    /\ \E orphaned \in BOOLEAN :
        /\ path = [a \in ApprovalIds |->
                     IF orphaned /\ a = OrphanId THEN OrphanInode ELSE NoInode]
        /\ record = [a \in ApprovalIds |->
                     IF orphaned /\ a = OrphanId THEN NewRecord(a) ELSE NoDoc]
    /\ fifo = [i \in Inodes |-> EmptyFifo]
    /\ auditLog = <<>>
    /\ hook = [h \in Hooks |-> InitHook]
    /\ stdout = [h \in Hooks |-> <<>>]
    /\ removed = [h \in Hooks |-> [pipe |-> 0, record |-> 0]]
    /\ announced = {}
    /\ warned = {}
    /\ daemon = IdleDaemon
    /\ answers = <<>>
    /\ presses = 0

(* ------------------------------------------------------------------ *)
(* The hook process: _handle_pre_tool_use                             *)
(* ------------------------------------------------------------------ *)

\* Mutant: the PID file is trusted without os.kill(pid, 0).
IsServeRunningNoProbe == pidFile

\* _is_serve_running: the PID file exists and names a live process.
IsServeRunning == pidFile /\ serveAlive

Emit(h, decision, reason) ==
    stdout' = [stdout EXCEPT ![h] = Append(@, OutputDecision(decision, reason))]

\* Lines 153-177: the configuration gates and the liveness check.
HookStart(h) ==
    /\ hook[h].pc = "start"
    /\ \E enabled \in BOOLEAN, dry \in BOOLEAN, notify \in BOOLEAN :
        \/ /\ ~enabled                          \* if not APPROVAL_ENABLED: return
           /\ hook' = [hook EXCEPT ![h].pc = "done", ![h].mode = "disabled"]
           /\ UNCHANGED <<stdout, pidFile, warned>>
        \/ /\ enabled /\ dry                    \* DRY_RUN
           /\ hook' = [hook EXCEPT ![h].pc = "done", ![h].mode = "dryrun"]
           /\ Emit(h, "approve", "dry-run auto-approve")
           /\ UNCHANGED <<pidFile, warned>>
        \/ /\ enabled /\ ~dry /\ ~IsServeRunning
           /\ pidFile' = FALSE                  \* a stale PID file is unlinked
           /\ warned' = IF notify THEN warned \cup {h} ELSE warned
           /\ hook' = [hook EXCEPT ![h].pc = "done", ![h].mode = "live"]
           /\ Emit(h, "block", "Serve daemon not running")
        \/ /\ enabled /\ ~dry /\ IsServeRunning
           /\ hook' = [hook EXCEPT ![h].pc = "mkfifo", ![h].mode = "live"]
           /\ UNCHANGED <<stdout, pidFile, warned>>
    /\ UNCHANGED <<restOfApproval, APPROVAL_USER, serveAlive, fsVars, auditLog, removed,
                   announced, daemonVars>>

\* Mutant: a create that opens whatever is already at the path.
MkfifoErrnoReuse(id, err) == err

\* os.mkfifo(pipe_path): EEXIST when the path exists, else another error
\* or "" (the pipe was created).
MkfifoErrno(id, err) == IF path[id] # NoInode THEN "EEXIST" ELSE err

\* Lines 177-185: approval_id = uuid4().hex[:12]; os.mkfifo(pipe_path).
HookMkfifo(h) ==
    /\ hook[h].pc = "mkfifo"
    /\ \E id \in ApprovalIds, err \in {"", "EACCES"} :
        LET e == MkfifoErrno(id, err) IN
        IF e # ""
        THEN /\ hook' = [hook EXCEPT ![h].pc = "done", ![h].approval_id = id]
             /\ Emit(h, "block", "Internal error: " \o e)
             /\ UNCHANGED <<path, fifo>>
        ELSE /\ path' = [path EXCEPT ![id] = h]
             /\ fifo' = [fifo EXCEPT ![h] = EmptyFifo]
             /\ hook' = [hook EXCEPT ![h].pc = "announce", ![h].approval_id = id,
                                     ![h].created = TRUE]
             /\ UNCHANGED stdout
    /\ UNCHANGED <<restOfApproval, APPROVAL_USER, pidFile, serveAlive, record, auditLog, removed,
                   announced, warned, daemonVars>>

\* Mutant: the document never reaches the file.
WriteStateNoop(id, doc, ok) == record' = record

\* _write_state: tmp.write_text + tmp.replace; an OSError is logged and swallowed.
WriteState(id, doc, ok) ==
    record' = IF ok THEN [record EXCEPT ![id] = doc] ELSE record

\* Lines 187-212: format the request and sendMessage it with the two
\* buttons; from here on the principal can press one.
HookAnnounce(h) ==
    /\ hook[h].pc = "announce"
    /\ \E outcome \in {"ok", "fail", "raise"} :
        \/ /\ outcome = "ok"
           /\ announced' = announced \cup {hook[h].approval_id}
           /\ hook' = [hook EXCEPT ![h].pc = "persist"]
           /\ UNCHANGED stdout
        \/ /\ outcome = "fail"                  \* msg_id is None
           /\ Emit(h, "block", "Failed to send approval request")
           /\ hook' = [hook EXCEPT ![h].pc = "unlink"]
           /\ UNCHANGED announced
        \/ /\ outcome = "raise"                 \* an exception leaves the try block
           /\ hook' = [hook EXCEPT ![h].pc = "unlink", ![h].raised = TRUE]
           /\ UNCHANGED <<announced, stdout>>
    /\ UNCHANGED <<restOfApproval, APPROVAL_USER, pidFile, serveAlive, fsVars, auditLog, removed,
                   warned, daemonVars>>

\* Lines 214-223: persist the ApprovalRequest record; _write_state returns
\* nothing, whether the write went through or not.
HookPersist(h) ==
    /\ hook[h].pc = "persist"
    /\ \E ok \in BOOLEAN :
        /\ WriteState(hook[h].approval_id, NewRecord(hook[h].approval_id), ok)
        /\ hook' = [hook EXCEPT ![h].pc = "open",
                                ![h].persisted = IF ok THEN "ok" ELSE "OSError"]
    /\ UNCHANGED <<restOfApproval, APPROVAL_USER, pidFile, serveAlive, path, fifo, auditLog, stdout,
                   removed, announced, warned, daemonVars>>

\* Line 226: os.open(pipe_path, O_RDONLY | O_NONBLOCK) succeeds without a writer.
HookOpen(h) ==
    /\ hook[h].pc = "open"
    /\ fifo' = [fifo EXCEPT ![h].readers = 1]
    /\ hook' = [hook EXCEPT ![h].pc = "select"]
    /\ UNCHANGED <<restOfApproval, APPROVAL_USER, pidFile, serveAlive, path, record, auditLog, stdout,
                   removed, announced, warned, daemonVars>>

\* os.read(fd, 1024).decode().strip(): everything buffered (the daemon writes
\* at most 7 bytes a press and no whitespace).
PipeRead(i) == fifo[i].buf

\* Mutant: select without a timeout returns only when the pipe is readable.
HookSelectNoTimeout(h) ==
    /\ hook[h].pc = "select"
    /\ Readable(h)
    /\ hook' = [hook EXCEPT ![h].pc = "close", ![h].decision_raw = PipeRead(h)]
    /\ fifo' = [fifo EXCEPT ![h].buf = ""]
    /\ UNCHANGED <<restOfApproval, APPROVAL_USER, pidFile, serveAlive, path, record, auditLog, stdout,
                   removed, announced, warned, daemonVars>>

\* Lines 228-232: select with APPROVAL_TIMEOUT, then read when ready.
HookSelect(h) ==
    /\ hook[h].pc = "select"
    /\ \/ /\ Readable(h)
          /\ hook' = [hook EXCEPT ![h].pc = "close", ![h].decision_raw = PipeRead(h)]
          /\ fifo' = [fifo EXCEPT ![h].buf = ""]
       \/ /\ ~Readable(h)                       \* the timeout elapses
          /\ hook' = [hook EXCEPT ![h].pc = "close", ![h].decision_raw = "",
                                  ![h].timedOut = TRUE]
          /\ UNCHANGED fifo
       \/ /\ hook' = [hook EXCEPT ![h].pc = "close", ![h].raised = TRUE]
          /\ UNCHANGED fifo                     \* an exception during the wait
    /\ UNCHANGED <<restOfApproval, APPROVAL_USER, pidFile, serveAlive, path, record, auditLog, stdout,
                   removed, announced, warned, daemonVars>>

\* Lines 233-234: finally: os.close(fd).
HookClose(h) ==
    /\ hook[h].pc = "close"
    /\ fifo' = [fifo EXCEPT ![h].readers = 0]
    /\ hook' = [hook EXCEPT ![h].pc = IF hook[h].raised THEN "unlink" ELSE "finish"]
    /\ UNCHANGED <<restOfApproval, APPROVAL_USER, pidFile, serveAlive, path, record, auditLog, stdout,
                   removed, announced, warned, daemonVars>>

\* The entry _handle_pre_tool_use hands to _audit_log_entry.
AuditEntry(id, decision, user_name, reason) ==
    [approval_id |-> id, decision |-> decision, decided_by |-> user_name,
     reason |-> reason]

\* _audit_log_entry: append one line; an OSError is logged and swallowed.
AuditLogEntry(entry, ok) ==
    auditLog' = IF ok THEN Append(auditLog, entry) ELSE auditLog

\* user_name = approval_state["decided_by"] if the record has one.
DecidedBy(st) == IF st # NoDoc THEN st.decided_by ELSE ""

\* Lines 236-270: the decision and its reason, who decided (read back from
\* the record, which never carries a "reason" key), editMessageText, the
\* audit entry, the decision printed.
HookFinish(h) ==
    /\ hook[h].pc = "finish"
    /\ LET id == hook[h].approval_id
           decision == DecisionOf(hook[h].decision_raw)
           reason == ReasonOf(hook[h].decision_raw)
           user_name == DecidedBy(ReadState(id)) IN
       \E outcome \in {"ok", "audit_error", "raise"} :
        \/ /\ outcome # "raise"
           /\ AuditLogEntry(AuditEntry(id, decision, user_name, reason), outcome = "ok")
           /\ Emit(h, decision, reason)
           /\ hook' = [hook EXCEPT ![h].pc = "unlink", ![h].decision = decision,
                                   ![h].reason = reason, ![h].user_name = user_name,
                                   ![h].audit = outcome]
        \/ /\ outcome = "raise"                 \* editMessageText raised
           /\ hook' = [hook EXCEPT ![h].pc = "unlink", ![h].raised = TRUE]
           /\ UNCHANGED <<auditLog, stdout>>
    /\ UNCHANGED <<restOfApproval, APPROVAL_USER, pidFile, serveAlive, fsVars, removed, announced,
                   warned, daemonVars>>

\* Line 273: finally: pipe_path.unlink(missing_ok=True).
HookUnlink(h) ==
    /\ hook[h].pc = "unlink"
    /\ path' = [path EXCEPT ![hook[h].approval_id] = NoInode]
    /\ removed' = [removed EXCEPT ![h].pipe = @ + 1]
    /\ hook' = [hook EXCEPT ![h].pc = "clear"]
    /\ UNCHANGED <<restOfApproval, APPROVAL_USER, pidFile, serveAlive, fifo, record, auditLog, stdout,
                   announced, warned, daemonVars>>

\* Mutant: the record is left behind.
ClearStateNoop(id) == record' = record

\* _clear_state: unlink(missing_ok=True).
ClearState(id) == record' = [record EXCEPT ![id] = NoDoc]

\* Line 274: _clear_state("_approvals", f"{approval_id}.json"); then the
\* function returns, or the exception goes on to main().
HookClear(h) ==
    /\ hook[h].pc = "clear"
    /\ ClearState(hook[h].approval_id)
    /\ removed' = [removed EXCEPT ![h].record = @ + 1]
    /\ hook' = [hook EXCEPT ![h].pc = "done"]
    /\ UNCHANGED <<restOfApproval, APPROVAL_USER, pidFile, serveAlive, path, fifo, auditLog, stdout,
                   announced, warned, daemonVars>>

HookStep(h) ==
    \/ HookStart(h)
    \/ HookMkfifo(h)
    \/ HookAnnounce(h)
    \/ HookPersist(h)
    \/ HookOpen(h)
    \/ HookSelect(h)
    \/ HookClose(h)
    \/ HookFinish(h)
    \/ HookUnlink(h)
    \/ HookClear(h)

(* ------------------------------------------------------------------ *)
(* The serve daemon: _handle_button -> _handle_approval_callback      *)
(* ------------------------------------------------------------------ *)

\* _answer_callback: what the actor who pressed is told.
Answer(id, decision, sender, text) ==
    answers' = Append(answers, [approval_id |-> id, decision |-> decision,
                                sender |-> sender, text |-> text])

\* f"{emoji} {decision.title()}d"
DoneText(decision) == IF decision = "approve" THEN "Approved" ELSE "Blockd"

\* _handle_button: sender_id != CHAT_ID is answered "Unauthorized".
ButtonAuthorized(sender) == sender = CHAT_ID

\* Mutant: the second sender check is missing.
ApprovalAuthorizedAnyone(sender) == TRUE

\* _handle_approval_callback: sender_id != APPROVAL_USER is rejected.
ApprovalAuthorized(sender) == sender = APPROVAL_USER

\* serve.py 178-217 and approval.py 277-302: one callback_query taken from
\* the poll result, the two sender checks, the parse of callback_data and
\* the read of the ApprovalRequest record.
DaemonButton ==
    /\ daemon.pc = "idle"
    /\ serveAlive
    /\ presses < MaxPresses
    /\ presses' = presses + 1
    /\ \E sender \in Senders, prefix \in Prefixes, id \in ApprovalIds :
        IF ~ButtonAuthorized(sender)
        THEN Answer(id, prefix, sender, "Unauthorized") /\ UNCHANGED daemon
        ELSE IF ~ApprovalAuthorized(sender)
        THEN Answer(id, prefix, sender, "Not authorized for approvals")
             /\ UNCHANGED daemon
        ELSE IF ReadState(id) = NoDoc
        THEN Answer(id, prefix, sender, "Approval expired or already handled")
             /\ UNCHANGED daemon
        ELSE /\ daemon' = [pc |-> "exists", approval_id |-> id, decision |-> prefix,
                           user_name |-> sender, state |-> ReadState(id),
                           fd |-> NoInode]
             /\ UNCHANGED answers
    /\ UNCHANGED <<restOfApproval, APPROVAL_USER, pidFile, serveAlive, fsVars, auditLog, hook, stdout,
                   removed, announced, warned>>

DaemonAnswer(text) ==
    /\ Answer(daemon.approval_id, daemon.decision, daemon.user_name, text)
    /\ daemon' = IdleDaemon

\* Lines 304-307: Path(pipe_path).exists().
DaemonExists ==
    /\ daemon.pc = "exists"
    /\ IF path[daemon.state.pipe_path] = NoInode
       THEN DaemonAnswer("Approval expired (pipe gone)")
       ELSE daemon' = [daemon EXCEPT !.pc = "write_state"] /\ UNCHANGED answers
    /\ UNCHANGED <<restOfApproval, APPROVAL_USER, pidFile, serveAlive, fsVars, auditLog, hook, stdout,
                   removed, announced, warned, presses>>

\* Lines 309-311: decision metadata written into the record.
DaemonWriteState ==
    /\ daemon.pc = "write_state"
    /\ LET st == [daemon.state EXCEPT !.decided_by = daemon.user_name,
                                      !.decision = daemon.decision] IN
       /\ \E ok \in BOOLEAN : WriteState(daemon.approval_id, st, ok)
       /\ daemon' = [daemon EXCEPT !.pc = "open", !.state = st]
    /\ UNCHANGED <<restOfApproval, APPROVAL_USER, pidFile, serveAlive, path, fifo, auditLog, hook,
                   stdout, removed, announced, warned, answers, presses>>

\* os.open(pipe_path, O_WRONLY | O_NONBLOCK): "" when it succeeds.
OpenWriteErrno(id) ==
    IF path[id] = NoInode THEN "ENOENT"
    ELSE IF fifo[path[id]].readers = 0 THEN "ENXIO"
    ELSE ""

\* Lines 319-327: the except OSError branch.
SignalErrorText(e) ==
    IF e = "ENXIO" THEN "Approval expired (hook timed out)" ELSE "Error: " \o e

\* Line 314: open the write end.
DaemonOpen ==
    /\ daemon.pc = "open"
    /\ LET p == daemon.state.pipe_path
           e == OpenWriteErrno(p) IN
       IF e # ""
       THEN DaemonAnswer(SignalErrorText(e)) /\ UNCHANGED fifo
       ELSE /\ fifo' = [fifo EXCEPT ![path[p]].writers = @ + 1,
                                    ![path[p]].hadWriter = TRUE]
            /\ daemon' = [daemon EXCEPT !.pc = "write", !.fd = path[p]]
            /\ UNCHANGED answers
    /\ UNCHANGED <<restOfApproval, APPROVAL_USER, pidFile, serveAlive, path, record, auditLog, hook,
                   stdout, removed, announced, warned, presses>>

\* os.write on the write end: EPIPE once the last reader has closed.
WriteErrno(i) == IF fifo[i].readers = 0 THEN "EPIPE" ELSE ""

\* Lines 316-331: os.write(fd, decision), os.close(fd), the answer.
DaemonWrite ==
    /\ daemon.pc = "write"
    /\ LET i == daemon.fd
           e == WriteErrno(i) IN
       IF e # ""
       THEN /\ fifo' = [fifo EXCEPT ![i].writers = @ - 1]
            /\ DaemonAnswer(SignalErrorText(e))
       ELSE /\ fifo' = [fifo EXCEPT ![i].writers = @ - 1,
                                    ![i].buf = @ \o daemon.decision]
            /\ DaemonAnswer(DoneText(daemon.decision))
    /\ UNCHANGED <<restOfApproval, APPROVAL_USER, pidFile, serveAlive, path, record, auditLog, hook,
                   stdout, removed, announced, warned, presses>>

\* serve(): KeyboardInterrupt at the poll; finally: SERVE_PID_FILE.unlink.
ServeStop ==
    /\ daemon.pc = "idle"
    /\ serveAlive
    /\ serveAlive' = FALSE
    /\ pidFile' = FALSE
    /\ UNCHANGED <<restOfApproval, APPROVAL_USER, fsVars, auditLog, hook, stdout, removed,
                   announced, warned, daemonVars>>

DaemonStep ==
    \/ DaemonButton
    \/ DaemonExists
    \/ DaemonWriteState
    \/ DaemonOpen
    \/ DaemonWrite
    \/ ServeStop

Next ==
    \/ \E h \in Hooks : HookStep(h)
    \/ DaemonStep

Spec == Init /\ [][Next]_vars

\* The hook process is running: its select(), called with the finite
\* APPROVAL_TIMEOUT, returns. Nothing is assumed of the daemon.
SpecWait == Spec /\ \A h \in Hooks : WF_vars(HookSelect(h))

(* ------------------------------------------------------------------ *)
(* Durable key-value state: notify/state.py                           *)
(* ------------------------------------------------------------------ *)

\* {"count": 5}: the document the plain writer writes (test_update_existing_file).
WrittenCount == 5

\* What a process does to the document: _locked_update with the updater
\* state["count"] = state.get("count", 0) + 1, a plain _write_state, or
\* _clear_state.
KVOps == {"update", "write", "clear"}

\* json.loads(path.read_text()), {} on OSError / JSONDecodeError; then
\* .get("count", 0).
ReadCount ==
    IF docName # NoFile /\ fileContent[docName].valid
    THEN fileContent[docName].count
    ELSE 0

\* The updater of TestLockedUpdate: count + 1.
Updater(n) == n + 1

\* The process picks its operation; _locked_update touches and opens the
\* lock file (lines 50-53).
KVStart(p) ==
    /\ proc[p].pc = "start"
    /\ \E op \in KVOps :
        proc' = [proc EXCEPT ![p].op = op,
                             ![p].pc = CASE op = "update" -> "lock"
                                         [] op = "write" -> "trunc"
                                         [] op = "clear" -> "unlink"]
    /\ UNCHANGED <<docName, tmpName, fileContent, lockHolder, count0, restOfKV>>

\* Mutant: LOCK_SH instead of LOCK_EX never waits for another updater.
LockFreeShared(p) == TRUE

\* fcntl.flock(fd, LOCK_EX) returns once no other process holds the lock.
LockFree(p) == lockHolder = "none"

\* Line 55: flock(LOCK_EX).
KVLock(p) ==
    /\ proc[p].pc = "lock"
    /\ LockFree(p)
    /\ lockHolder' = p
    /\ proc' = [proc EXCEPT ![p].pc = "read"]
    /\ UNCHANGED <<docName, tmpName, fileContent, count0, restOfKV>>

\* Lines 56-60: read the document, run the updater.
KVRead(p) ==
    /\ proc[p].pc = "read"
    /\ proc[p].op = "update"
    /\ proc' = [proc EXCEPT ![p].pc = "trunc", ![p].data = Updater(ReadCount)]
    /\ UNCHANGED <<docName, tmpName, fileContent, lockHolder, count0, restOfKV>>

\* tmp.write_text, first half: open(tmp, "w") truncates the file linked at
\* tmp, or creates a new file there: one that is not the document and that
\* no other process holds open.
FreshFile(p) ==
    CHOOSE f \in FileIds :
        f # docName /\ \A q \in Procs \ {p} : proc[q].fd # f

KVTruncate(p) ==
    /\ proc[p].pc = "trunc"
    /\ LET f == IF tmpName # NoFile THEN tmpName ELSE FreshFile(p) IN
       /\ tmpName' = f
       /\ fileContent' = [fileContent EXCEPT ![f] = Truncated]
       /\ proc' = [proc EXCEPT ![p].pc = "wdata", ![p].fd = f]
    /\ UNCHANGED <<docName, lockHolder, count0, restOfKV>>

\* What the process serialises: the updater's result, or the plain document.
Payload(p) == IF proc[p].op = "update" THEN proc[p].data ELSE WrittenCount

\* tmp.write_text, second half: json.dumps(...) written through the open
\* descriptor, wherever that file is linked by now.
KVWriteData(p) ==
    /\ proc[p].pc = "wdata"
    /\ fileContent' = [fileContent EXCEPT ![proc[p].fd] = Valid(Payload(p))]
    /\ proc' = [proc EXCEPT ![p].pc = "replace", ![p].fd = NoFile]
    /\ UNCHANGED <<docName, tmpName, lockHolder, count0, restOfKV>>

\* tmp.replace(path): rename; FileNotFoundError when tmp is gone, which
\* _write_state logs and _locked_update lets propagate (after unlocking).
KVReplace(p) ==
    /\ proc[p].pc = "replace"
    /\ IF tmpName = NoFile
       THEN /\ proc' = [proc EXCEPT
                          ![p].pc = IF proc[p].op = "update" THEN "unlock" ELSE "done",
                          ![p].raised = (proc[p].op = "update")]
            /\ UNCHANGED <<docName, tmpName>>
       ELSE /\ docName' = tmpName
            /\ tmpName' = NoFile
            /\ proc' = [proc EXCEPT
                          ![p].pc = IF proc[p].op = "update" THEN "unlock" ELSE "done"]
    /\ UNCHANGED <<fileContent, lockHolder, count0, restOfKV>>

\* Lines 68-70: finally: flock(LOCK_UN); close.
KVUnlock(p) ==
    /\ proc[p].pc = "unlock"
    /\ lockHolder' = "none"
    /\ proc' = [proc EXCEPT ![p].pc = "done"]
    /\ UNCHANGED <<docName, tmpName, fileContent, count0, restOfKV>>

\* _clear_state: path.unlink(missing_ok=True).
KVClear(p) ==
    /\ proc[p].pc = "unlink"
    /\ docName' = NoFile
    /\ proc' = [proc EXCEPT ![p].pc = "done"]
    /\ UNCHANGED <<tmpName, fileContent, lockHolder, count0, restOfKV>>

KVStep(p) ==
    \/ KVStart(p)
    \/ KVLock(p)
    \/ KVRead(p)
    \/ KVTruncate(p)
    \/ KVWriteData(p)
    \/ KVReplace(p)
    \/ KVUnlock(p)
    \/ KVClear(p)

\* The document is missing or holds {"count": 0} or {"count": 5}, no tmp
\* file is left over, and every process is about to start.
InitKV ==
    /\ IdleExcept("kv")
    /\ \E start \in {"absent", "zero", "written"} :
        /\ docName = IF start = "absent" THEN NoFile ELSE "f0"
        /\ fileContent = [f \in FileIds |->
                            IF f = "f0" /\ start = "written"
                            THEN Valid(WrittenCount) ELSE
                            IF f = "f0" /\ start = "zero" THEN Valid(0) ELSE Truncated]
        /\ count0 = IF start = "written" THEN WrittenCount ELSE 0
    /\ tmpName = NoFile
    /\ lockHolder = "none"
    /\ proc = [p \in Procs |-> InitProc]

NextKV == \E p \in Procs : KVStep(p)

SpecKV == InitKV /\ [][NextKV]_vars

(* ------------------------------------------------------------------ *)
(* The state file as one caller uses it: _read_state, _write_state,   *)
(* _clear_state (notify/state.py)                                     *)
(* ------------------------------------------------------------------ *)

\* Calls one process makes on the file.
MaxCalls == 3

\* Documents a caller writes (JSON objects); "{}" is the empty document.
EmptyDoc == "{}"
Docs == {EmptyDoc, "d1", "d2"}

\* What the path may hold when a call starts: nothing, something read_text
\* cannot open (a directory, no permission), text that is not JSON, bytes
\* that are not UTF-8, or a document.
Contents == Docs \cup {"absent", "unreadable", "badjson", "badbytes"}

\* _read_state: json.loads(path.read_text()), {} on OSError and on
\* JSONDecodeError. read_text decodes as UTF-8 and raises
\* UnicodeDecodeError, a ValueError that is neither.
ReadStateFile(c) ==
    CASE c \in {"absent", "unreadable"} -> [raised |-> "", value |-> EmptyDoc]
      [] c = "badjson" -> [raised |-> "", value |-> EmptyDoc]
      [] c = "badbytes" -> [raised |-> "UnicodeDecodeError", value |-> ""]
      [] OTHER -> [raised |-> "", value |-> c]

\* One more call on the file, with what it found and what it returned.
StoreCall(op, arg, ok, result) ==
    scalls' = Append(scalls, [op |-> op, arg |-> arg, ok |-> ok, found |-> sfile,
                              raised |-> result.raised, value |-> result.value])

StoreRead ==
    /\ Len(scalls) < MaxCalls
    /\ StoreCall("read", "", TRUE, ReadStateFile(sfile))
    /\ UNCHANGED <<sfile, restOfStore>>

\* _write_state: tmp.write_text then tmp.replace(path); an OSError of either
\* is logged and the target is left as it was.
StoreWrite ==
    /\ Len(scalls) < MaxCalls
    /\ \E d \in Docs, ok \in BOOLEAN :
        /\ sfile' = IF ok THEN d ELSE sfile
        /\ StoreCall("write", d, ok, [raised |-> "", value |-> ""])
    /\ UNCHANGED restOfStore

\* _clear_state: unlink(missing_ok=True); an OSError is swallowed.
StoreClear ==
    /\ Len(scalls) < MaxCalls
    /\ \E ok \in BOOLEAN :
        /\ ok \/ sfile # "absent"
        /\ sfile' = IF ok THEN "absent" ELSE sfile
        /\ StoreCall("clear", "", ok, [raised |-> "", value |-> ""])
    /\ UNCHANGED restOfStore

InitStore ==
    /\ IdleExcept("store")
    /\ sfile \in Contents
    /\ scalls = <<>>

NextStore ==
    \/ StoreRead
    \/ StoreWrite
    \/ StoreClear

SpecStore == InitStore /\ [][NextStore]_vars

(* ------------------------------------------------------------------ *)
(* Debounce: _debounce_accumulate and _debounce_flush on              *)
(* {project}/debounce.json (hookline/debounce.py), both through       *)
(* _locked_update                                                     *)
(* ------------------------------------------------------------------ *)

\* Debounce calls one hook process makes, one after the other.
MaxRounds == 2

\* The batch holds events[K].count for one event kind K; the document
\* {"count": n} of the state layer stands for it, and the updater of
\* _debounce_accumulate (count + 1, creating the batch when there is none)
\* is Updater.
DebounceOps == {"update", "flush"}

\* A hook process calls _debounce_accumulate ("update") or _debounce_flush;
\* _locked_update touches and opens the lock file.
DebounceStart(p) ==
    /\ proc[p].pc = "start"
    /\ \E op \in DebounceOps :
        proc' = [proc EXCEPT ![p].op = op, ![p].pc = "lock"]
    /\ UNCHANGED <<docName, tmpName, fileContent, lockHolder, count0, debounceVars,
                   restOfDebounce>>

\* _debounce_flush, under the lock: flushed = state (what was read).
FlushRead(p) ==
    /\ proc[p].pc = "read"
    /\ proc[p].op = "flush"
    /\ proc' = [proc EXCEPT ![p].pc = "funlink", ![p].data = ReadCount]
    /\ UNCHANGED <<docName, tmpName, fileContent, lockHolder, count0, debounceVars,
                   restOfDebounce>>

\* Mutant: the updater of the flush returns the state instead of None, and
\* nothing is unlinked.
UpdaterNoneKeeps == docName' = docName

\* The updater returned None: path.unlink(missing_ok=True).
UpdaterNone == docName' = NoFile

FlushUnlink(p) ==
    /\ proc[p].pc = "funlink"
    /\ UpdaterNone
    /\ proc' = [proc EXCEPT ![p].pc = "unlock"]
    /\ UNCHANGED <<tmpName, fileContent, lockHolder, count0, debounceVars,
                   restOfDebounce>>

\* What a call that returned did: one accumulation, or the count its flush
\* returned (0: it returned None).
Returned(p) == proc[p].pc = "done"
TallyOf(p) ==
    [accumulated |-> IF proc[p].op = "update" THEN 1 ELSE 0,
     flushed |-> IF proc[p].op = "flush" THEN proc[p].data ELSE 0,
     batches |-> IF proc[p].op = "flush" /\ proc[p].data > 0 THEN 1 ELSE 0]

\* The hook process exits; the next event starts another one.
DebounceAgain(p) ==
    /\ Returned(p)
    /\ rounds[p] < MaxRounds
    /\ rounds' = [rounds EXCEPT ![p] = @ + 1]
    /\ tally' = [accumulated |-> tally.accumulated + TallyOf(p).accumulated,
                 flushed |-> tally.flushed + TallyOf(p).flushed,
                 batches |-> tally.batches + TallyOf(p).batches]
    /\ proc' = [proc EXCEPT ![p] = InitProc]
    /\ UNCHANGED <<docName, tmpName, fileContent, lockHolder, count0, restOfDebounce>>

DebounceStep(p) ==
    \/ DebounceStart(p)
    \/ KVLock(p)
    \/ KVRead(p)
    \/ KVTruncate(p)
    \/ KVWriteData(p)
    \/ KVReplace(p)
    \/ FlushRead(p)
    \/ FlushUnlink(p)
    \/ KVUnlock(p)
    \/ DebounceAgain(p)

\* No batch, or a batch of one event, is pending; no tmp file is left over.
InitDebounce ==
    /\ IdleExcept("debounce")
    /\ \E pending \in BOOLEAN :
        /\ docName = IF pending THEN "f0" ELSE NoFile
        /\ fileContent = [f \in FileIds |->
                            IF f = "f0" /\ pending THEN Valid(1) ELSE Truncated]
        /\ count0 = IF pending THEN 1 ELSE 0
    /\ tmpName = NoFile
    /\ lockHolder = "none"
    /\ proc = [p \in Procs |-> InitProc]
    /\ rounds = [p \in Procs |-> 1]
    /\ tally = NoTally

NextDebounce == \E p \in Procs : DebounceStep(p)

SpecDebounce == InitDebounce /\ [][NextDebounce]_vars

(* ------------------------------------------------------------------ *)
(* The hook's main() for events other than PreToolUse                 *)
(* (hookline/__main__.py, lines 50-99)                                *)
(* ------------------------------------------------------------------ *)

\* Events delivered to hook processes in one run.
MaxEvents == 4

DEBOUNCE_EVENTS == {"SubagentStop", "TeammateIdle"}
EventNames == {"SubagentStop", "Stop", "Notification"}

\* _debounce_should_flush: a batch exists and its last_time is older than
\* DEBOUNCE_WINDOW.
DebounceShouldFlush == batch.count > 0 /\ batch.stale

\* Mutant: the guard of _debounce_flush inverted, so a batch never renders.
BatchMsgNever(flushed) == "none"

\* _debounce_flush's return value: None when nothing was flushed, else the
\* rendered summary.
BatchMsg(flushed) == IF flushed = 0 THEN "none" ELSE "summary"

\* The clock moves past last_time + DEBOUNCE_WINDOW.
WindowPasses ==
    /\ batch.count > 0
    /\ ~batch.stale
    /\ batch' = [batch EXCEPT !.stale = TRUE]
    /\ UNCHANGED <<SUPPRESS, mhook, eventsSeen, restOfMain>>

\* Lines 42-57: one event on stdin; the project is not enabled (and not
\* DRY_RUN), the event is suppressed, or the session is too young: return.
MainStart(h) ==
    /\ mhook[h].pc \in {"idle", "done"}
    /\ eventsSeen < MaxEvents
    /\ eventsSeen' = eventsSeen + 1
    /\ \E e \in EventNames, enabled \in BOOLEAN, young \in BOOLEAN :
        LET handled == enabled /\ e \notin SUPPRESS /\ ~young IN
        mhook' = [mhook EXCEPT ![h] =
                    [InitMainHook EXCEPT !.event = e, !.handled = handled,
                                         !.pc = IF handled THEN "should" ELSE "done"]]
    /\ UNCHANGED <<SUPPRESS, batch, restOfMain>>

\* Line 59: if _debounce_should_flush(project).
MainShouldFlush(h) ==
    /\ mhook[h].pc = "should"
    /\ mhook' = [mhook EXCEPT ![h].pc = IF DebounceShouldFlush THEN "early_flush"
                                                               ELSE "route"]
    /\ UNCHANGED <<SUPPRESS, batch, eventsSeen, restOfMain>>

\* _debounce_flush: the batch is read and deleted under the lock.
DebounceFlush(h) ==
    /\ batch' = NoBatch
    /\ mhook' = [mhook EXCEPT
                   ![h].flushed = Append(@, batch.count),
                   ![h].unconditional = (mhook[h].pc = "route"),
                   ![h].pc = IF BatchMsg(batch.count) = "none"
                             THEN (IF mhook[h].pc = "route" THEN "send_own" ELSE "route")
                             ELSE (IF mhook[h].pc = "route" THEN "send_batch"
                                                            ELSE "early_send")]

\* Line 60: the opportunistic flush of a stale batch.
MainEarlyFlush(h) ==
    /\ mhook[h].pc = "early_flush"
    /\ DebounceFlush(h)
    /\ UNCHANGED <<SUPPRESS, eventsSeen, restOfMain>>

\* _send_threaded: the message goes out, or the API call fails and None is
\* logged, or the call raises (a reply that is not JSON) and main() ends.
SendThreaded(h, kind, count, next) ==
    \E outcome \in {"sent", "failed", "raise"} :
        mhook' = [mhook EXCEPT
                    ![h].sent = IF outcome = "raise" THEN @
                                ELSE Append(@, [kind |-> kind, count |-> count,
                                                delivered |-> outcome = "sent"]),
                    ![h].raised = (outcome = "raise"),
                    ![h].pc = IF outcome = "raise" THEN "done" ELSE next]

\* Lines 61-62, 70-71, 88-89: if batch_msg: _send_threaded(batch_msg, ...).
MainSendBatch(h) ==
    /\ mhook[h].pc \in {"early_send", "send_batch"}
    /\ SendThreaded(h, "batch", mhook[h].flushed[Len(mhook[h].flushed)],
                    IF mhook[h].pc = "early_send" THEN "route" ELSE "send_own")
    /\ UNCHANGED <<SUPPRESS, batch, eventsSeen, restOfMain>>

\* Lines 64-66: a debounce-eligible event is accumulated (count + 1,
\* last_time = now) and main() returns.
MainAccumulate(h) ==
    /\ mhook[h].pc = "route"
    /\ mhook[h].event \in DEBOUNCE_EVENTS
    /\ batch' = [count |-> batch.count + 1, stale |-> FALSE]
    /\ mhook' = [mhook EXCEPT ![h].accumulated = TRUE, ![h].pc = "done"]
    /\ UNCHANGED <<SUPPRESS, eventsSeen, restOfMain>>

\* Lines 69 and 87: Stop, and every other event that is not
\* debounce-eligible, flush whatever is pending.
MainFlush(h) ==
    /\ mhook[h].pc = "route"
    /\ mhook[h].event \notin DEBOUNCE_EVENTS
    /\ DebounceFlush(h)
    /\ UNCHANGED <<SUPPRESS, eventsSeen, restOfMain>>

\* Lines 73-74 and 91-96: the event's own message.
MainSendOwn(h) ==
    /\ mhook[h].pc = "send_own"
    /\ SendThreaded(h, "own", 0, IF mhook[h].event = "Stop" THEN "clear" ELSE "done")
    /\ UNCHANGED <<SUPPRESS, batch, eventsSeen, restOfMain>>

\* Lines 76-79: Stop clears the session's state, debounce.json included
\* (_clear_state, no lock).
MainClear(h) ==
    /\ mhook[h].pc = "clear"
    /\ batch' = NoBatch
    /\ mhook' = [mhook EXCEPT ![h].pc = "done"]
    /\ UNCHANGED <<SUPPRESS, eventsSeen, restOfMain>>

MainStep(h) ==
    \/ MainStart(h)
    \/ MainShouldFlush(h)
    \/ MainEarlyFlush(h)
    \/ MainSendBatch(h)
    \/ MainAccumulate(h)
    \/ MainFlush(h)
    \/ MainSendOwn(h)
    \/ MainClear(h)

InitMain ==
    /\ IdleExcept("main")
    /\ SUPPRESS \in {{}, {"Notification"}}
    /\ batch = NoBatch
    /\ mhook = [h \in MainHooks |-> InitMainHook]
    /\ eventsSeen = 0

NextMain ==
    \/ \E h \in MainHooks : MainStep(h)
    \/ WindowPasses

SpecMain == InitMain /\ [][NextMain]_vars

(* ------------------------------------------------------------------ *)
(* Cron expressions: CronExpr (hookline/scheduler.py)                 *)
(* ------------------------------------------------------------------ *)

\* An expression is the sequence of its whitespace-separated fields, a field
\* the sequence of its comma-separated parts. A number written with a sign
\* or with letters makes int() raise and is not drawn here.

\* The domain of each field: minute, hour, day-of-month, month, day-of-week.
FieldMin == <<0, 0, 1, 1, 0>>
FieldMax == <<59, 23, 31, 12, 6>>

\* What _parse_field collects from one part, or "error" where it raises
\* ValueError. Only a single value is compared with the field's domain.
RECURSIVE StrideFrom(_, _, _)
StrideFrom(start, max_val, step) ==
    IF start > max_val THEN {}
    ELSE {start} \cup StrideFrom(start + step, max_val, step)

PartError(part, min_val, max_val) ==
    CASE part.kind = "step" -> part.b <= 0
      [] part.kind = "range" -> part.a > part.b
      [] part.kind = "single" -> part.a < min_val \/ part.a > max_val
      [] OTHER -> TRUE      \* int("*")

PartValues(part, min_val, max_val) ==
    CASE part.kind = "step" ->
            StrideFrom(IF part.a = StarBase THEN min_val ELSE part.a, max_val, part.b)
      [] part.kind = "range" -> part.a .. part.b
      [] OTHER -> {part.a}

\* _parse_field: None ("any") for "*", else the union of the parts' values.
ParseField(field, min_val, max_val) ==
    IF field = <<Star>>
    THEN [error |-> FALSE, any |-> TRUE, values |-> {}]
    ELSE IF \E k \in 1..Len(field) : PartError(field[k], min_val, max_val)
    THEN [error |-> TRUE, any |-> FALSE, values |-> {}]
    ELSE [error |-> FALSE, any |-> FALSE,
          values |-> UNION {PartValues(field[k], min_val, max_val) : k \in 1..Len(field)}]

\* CronExpr.__init__: five fields, each parsed against its domain.
ParseCron(expr) ==
    IF Len(expr) # 5 THEN [status |-> "ValueError"]
    ELSE LET parsed == [k \in 1..5 |-> ParseField(expr[k], FieldMin[k], FieldMax[k])] IN
         IF \E k \in 1..5 : parsed[k].error
         THEN [status |-> "ValueError"]
         ELSE [status |-> "ok", fields |-> parsed]

\* Days before each month of 1970, and one past December.
DaysBefore == <<0, 31, 59, 90, 120, 151, 181, 212, 243, 273, 304, 334, 365>>

\* The fields of datetime.fromtimestamp(t, tz=utc) during 1970.
MinuteOf(t) == (t \div 60) % 60
HourOf(t) == (t \div 3600) % 24
MonthOf(t) ==
    CHOOSE m \in 1..12 :
        DaysBefore[m] <= (t \div 86400) /\ (t \div 86400) < DaysBefore[m + 1]
DayOf(t) == 1 + (t \div 86400) - DaysBefore[MonthOf(t)]

\* Mutant: the weekday counted as cron does, Sunday = 0.
WeekdayOfSundayFirst(t) == ((t \div 86400) + 4) % 7

\* dt.weekday(): Monday = 0; 1 January 1970 was a Thursday.
WeekdayOf(t) == ((t \div 86400) + 3) % 7

\* CronExpr.matches
FieldMatches(f, v) == f.any \/ v \in f.values
Matches(c, t) ==
    /\ FieldMatches(c.fields[1], MinuteOf(t))
    /\ FieldMatches(c.fields[2], HourOf(t))
    /\ FieldMatches(c.fields[3], DayOf(t))
    /\ FieldMatches(c.fields[4], MonthOf(t))
    /\ FieldMatches(c.fields[5], WeekdayOf(t))

\* Numbers written in the field under test: the ends of the domains and
\* their neighbours.
CronNumbers == {0, 1, 6, 7, 12, 13, 23, 24, 31, 32, 59, 60}
CronSteps == {0, 1, 5}

\* Fields under test: one part, or a list of two single values.
CronParts ==
    {Single(n) : n \in CronNumbers}
    \cup {Range(lo, hi) : lo \in CronNumbers, hi \in CronNumbers}
    \cup {Step(base, st) : base \in CronNumbers \cup {StarBase}, st \in CronSteps}
CronFields ==
    {<<Star>>}
    \cup {<<part>> : part \in CronParts}
    \cup {<<Single(n), Single(m)>> : n \in CronNumbers, m \in CronNumbers}

\* Expressions: "*" everywhere but in one field, or a wrong number of fields.
CronInputs ==
    {[EveryMinute EXCEPT ![k] = field] : k \in 1..5, field \in CronFields}
    \cup {<<<<Star>>, <<Star>>, <<Star>>>>, EveryMinute \o <<<<Star>>>>}

\* Datetimes matches() is called with: the first and last minutes of an
\* hour and some between, on days that cover every weekday, the ends of
\* months and of the year 1970.
CronDays == {0, 1, 2, 3, 4, 5, 6, 30, 31, 58, 59, 334, 364}
CronHours == {0, 12, 23}
CronMinutes == {0, 5, 6, 59}
CronTimes ==
    {d * 86400 + h * 3600 + m * 60 + 30 :
        d \in CronDays, h \in CronHours, m \in CronMinutes}

\* CronExpr(expr)
CronExprInit ==
    /\ cronParsed = NotParsed
    /\ cronParsed' = ParseCron(cronInput)
    /\ UNCHANGED <<cronInput, cronAt, cronMatched, restOfCron>>

\* expr.matches(dt) on the object CronExpr(expr) returned.
CronMatchesCall ==
    /\ cronParsed # NotParsed
    /\ cronParsed.status = "ok"
    /\ cronAt = NoTime
    /\ \E t \in CronTimes :
        /\ cronAt' = t
        /\ cronMatched' = Matches(cronParsed, t)
    /\ UNCHANGED <<cronInput, cronParsed, restOfCron>>

InitCron ==
    /\ IdleExcept("cron")
    /\ cronInput \in CronInputs
    /\ cronParsed = NotParsed
    /\ cronAt = NoTime
    /\ cronMatched = FALSE

NextCron ==
    \/ CronExprInit
    \/ CronMatchesCall

SpecCron == InitCron /\ [][NextCron]_vars

(* ------------------------------------------------------------------ *)
(* The scheduler: ScheduledTask, register_task, tick                  *)
(* (hookline/scheduler.py)                                            *)
(* ------------------------------------------------------------------ *)

\* tick() calls, register_task calls and daemon restarts in one run.
MaxTicks == 3
MaxRegs == 2
MaxRestarts == 1

\* Seconds between two ticks, and between the two clock reads of one tick
\* (datetime.now, then time.time).
Deltas == {5, 3600}
Skews == {0, 1}

\* The clock when the daemon starts: on a minute, or a second before one.
StartTimes == {Epoch, Epoch + 59}

\* "0 * * * *", "60 * * * *", "* * *"
OnTheHour == [EveryMinute EXCEPT ![1] = <<Single(0)>>]
BadMinute == [EveryMinute EXCEPT ![1] = <<Single(60)>>]
ThreeFields == <<<<Star>>, <<Star>>, <<Star>>>>

\* The cron argument of register_task: None (or ""), or an expression; and
\* interval_minutes: None (or 0), or 60.
NoCronArg == [given |-> FALSE, expr |-> EveryMinute]
CronArgs == {NoCronArg} \cup {[given |-> TRUE, expr |-> e] :
                                e \in {EveryMinute, OnTheHour, BadMinute, ThreeFields}}
IntervalArgs == {0, 60}

\* ScheduledTask.__init__: the new task, or "raise" for ValueError.
ScheduledTaskInit(cron, interval_minutes) ==
    LET cron_expr == IF cron.given THEN ParseCron(cron.expr) ELSE NotParsed
        interval_seconds == interval_minutes * 60
    IN IF cron_expr.status = "ValueError" THEN [raised |-> TRUE, task |-> NoTask]
       ELSE IF cron_expr = NotParsed /\ interval_seconds = 0
       THEN [raised |-> TRUE, task |-> NoTask]
       ELSE [raised |-> FALSE,
             task |-> [registered |-> TRUE, cron_expr |-> cron_expr,
                       interval_seconds |-> interval_seconds, last_run |-> 0]]

\* register_task: _tasks[name] = ScheduledTask(...).
RegisterTask ==
    /\ regs < MaxRegs
    /\ \E name \in TaskNames, cron \in CronArgs, interval_minutes \in IntervalArgs :
        LET made == ScheduledTaskInit(cron, interval_minutes) IN
        /\ tasks' = IF made.raised THEN tasks ELSE [tasks EXCEPT ![name] = made.task]
        /\ lastReg' = [name |-> name, cron |-> cron.given,
                       cron_ok |-> cron.given /\ ParseCron(cron.expr).status = "ok",
                       interval_minutes |-> interval_minutes, raised |-> made.raised]
    /\ regs' = regs + 1
    /\ UNCHANGED <<runState, clock, ticks, fired, tickLog, restarts, restOfSched>>

\* Mutant: no same-minute check.
SameMinuteNever(a, b) == FALSE

\* Lines 107-114: year, month, day, hour and minute agree.
SameMinute(a, b) == a \div 60 = b \div 60

\* Mutant: strictly more than the interval.
IntervalDueLater(now_ts, last_run, interval_seconds) ==
    now_ts - last_run > interval_seconds

\* Line 119.
IntervalDue(now_ts, last_run, interval_seconds) ==
    now_ts - last_run >= interval_seconds

\* ScheduledTask.should_run
ShouldRun(task, last_run, now, now_ts) ==
    IF task.cron_expr # NotParsed
    THEN /\ Matches(task.cron_expr, now)
         /\ ~(last_run > 0 /\ SameMinute(last_run, now))
    ELSE IF task.interval_seconds # 0
    THEN IntervalDue(now_ts, last_run, task.interval_seconds)
    ELSE FALSE

\* Mutant: tick never loads the map into the registry.
HydratedNever(n) == tasks[n].last_run

\* Lines 165-168: the in-memory last_run after hydration from the map.
Hydrated(n) == IF runState[n] # 0 THEN runState[n] ELSE tasks[n].last_run

\* Mutant: last_run is stamped before the handler is called.
LastRunAfterStamped(due, outcome, last_run, now_ts) ==
    IF due THEN now_ts ELSE last_run

\* Lines 173-180: last_run = now_ts only when the handler returned.
LastRunAfter(due, outcome, last_run, now_ts) ==
    IF due /\ outcome = "ok" THEN now_ts ELSE last_run

\* Mutant: the map written holds only the tasks that fired in this tick.
StateAfterOnlyRan(ran, now_ts) ==
    [n \in TaskNames |-> IF ran[n] THEN now_ts ELSE 0]

\* Lines 165 and 176: the map loaded from scheduler.json, with
\* state[name] = now_ts for every task whose handler returned.
StateAfter(ran, now_ts) ==
    [n \in TaskNames |-> IF ran[n] THEN now_ts ELSE runState[n]]

\* Lines 182-183: if ran_any: _save_state(state); the number of writes.
Saves(ran) == IF \E n \in TaskNames : ran[n] THEN 1 ELSE 0

\* The handler calls of one tick, in registry order.
RECURSIVE Calls(_, _, _, _, _)
Calls(names, due, outcomes, now, now_ts) ==
    IF names = <<>> THEN <<>>
    ELSE LET n == Head(names)
             rest == Calls(Tail(names), due, outcomes, now, now_ts)
         IN IF due[n]
            THEN <<[name |-> n, tick |-> ticks + 1, now |-> now, ts |-> now_ts,
                    ok |-> outcomes[n] = "ok", last |-> Hydrated(n),
                    cron |-> tasks[n].cron_expr # NotParsed,
                    interval_seconds |-> tasks[n].interval_seconds]>> \o rest
            ELSE rest

\* tick(): load the map, hydrate, run every due task's handler (which
\* returns or raises), save the map if any ran.
Tick ==
    /\ ticks < MaxTicks
    /\ \E n \in TaskNames : tasks[n].registered
    /\ \E d \in Deltas, skew \in Skews, outcomes \in [TaskNames -> {"ok", "raise"}] :
        LET now == clock + d
            now_ts == now + skew
            due == [n \in TaskNames |->
                      tasks[n].registered /\ ShouldRun(tasks[n], Hydrated(n), now, now_ts)]
            ran == [n \in TaskNames |-> due[n] /\ outcomes[n] = "ok"]
        IN /\ \A n \in TaskNames : ~due[n] => outcomes[n] = "ok"
           /\ tasks' = [n \in TaskNames |->
                          IF tasks[n].registered
                          THEN [tasks[n] EXCEPT !.last_run =
                                  LastRunAfter(due[n], outcomes[n], Hydrated(n), now_ts)]
                          ELSE tasks[n]]
           /\ runState' = IF Saves(ran) > 0 THEN StateAfter(ran, now_ts) ELSE runState
           /\ fired' = fired \o Calls(<<"t1", "t2">>, due, outcomes, now, now_ts)
           /\ tickLog' = Append(tickLog, [now |-> now, ts |-> now_ts,
                                          saves |-> Saves(ran)])
           /\ clock' = now_ts
    /\ ticks' = ticks + 1
    /\ UNCHANGED <<lastReg, regs, restarts, restOfSched>>

\* The daemon restarts and registers the same tasks again: last_run = 0.0.
Restart ==
    /\ restarts < MaxRestarts
    /\ ticks > 0
    /\ restarts' = restarts + 1
    /\ tasks' = [n \in TaskNames |-> [tasks[n] EXCEPT !.last_run = 0]]
    /\ UNCHANGED <<runState, clock, ticks, fired, tickLog, lastReg, regs, restOfSched>>

\* Nothing is registered, and register_task is called with any arguments.
InitReg ==
    /\ IdleExcept("sched")
    /\ tasks = [n \in TaskNames |-> NoTask]
    /\ runState = [n \in TaskNames |-> 0]
    /\ clock \in StartTimes
    /\ ticks = 0
    /\ fired = <<>>
    /\ tickLog = <<>>
    /\ lastReg = NoReg
    /\ regs = 0
    /\ restarts = 0

NextReg == RegisterTask

SpecReg == InitReg /\ [][NextReg]_vars

\* What daemon startup registers under a name: nothing, a cron task, or an
\* interval task.
StartupTasks ==
    {NoTask}
    \cup {ScheduledTaskInit([given |-> TRUE, expr |-> e], 0).task :
             e \in {EveryMinute, OnTheHour}}
    \cup {ScheduledTaskInit(NoCronArg, 60).task}

\* The daemon has registered its tasks; nothing was persisted yet.
InitSched ==
    /\ IdleExcept("sched")
    /\ tasks \in [TaskNames -> StartupTasks]
    /\ runState = [n \in TaskNames |-> 0]
    /\ clock \in StartTimes
    /\ ticks = 0
    /\ fired = <<>>
    /\ tickLog = <<>>
    /\ lastReg = NoReg
    /\ regs = 0
    /\ restarts = 0

NextSched ==
    \/ Tick
    \/ Restart

SpecSched == InitSched /\ [][NextSched]_vars

(* ------------------------------------------------------------------ *)
(* Debounce timestamps: first_time / last_time of the batch, and      *)
(* _debounce_should_flush (hookline/debounce.py)                      *)
(* ------------------------------------------------------------------ *)

\* Times the clock moves in one run, and _debounce_should_flush calls.
MaxWallTicks == 3
MaxChecks == 2

DEBOUNCE_WINDOW == 30

\* The clock moves on by a second, or by the length of the window.
WallSteps == {1, DEBOUNCE_WINDOW}

WallTick ==
    /\ wallTicks < MaxWallTicks
    /\ wallTicks' = wallTicks + 1
    /\ \E d \in WallSteps : wall' = wall + d
    /\ UNCHANGED <<dfile, acc, stamps, checks, restOfStamp>>

\* Lines 15-17: now = time.time(), before the lock is asked for.
AccSample(h) ==
    /\ acc[h].pc = "idle"
    /\ acc' = [acc EXCEPT ![h] = [pc |-> "sampled", now |-> wall]]
    /\ UNCHANGED <<wall, wallTicks, dfile, stamps, checks, restOfStamp>>

\* Lines 19-34, the updater: a new batch starts at now; last_time = now.
AccumulateUpdater(state, now) ==
    LET st == IF ~state.exists
              THEN [exists |-> TRUE, first_time |-> now, last_time |-> now]
              ELSE state
    IN [st EXCEPT !.last_time = now]

\* Line 36: _locked_update(project, "debounce.json", updater): the read, the
\* updater and the write, under the lock.
AccUpdate(h) ==
    /\ acc[h].pc = "sampled"
    /\ dfile' = AccumulateUpdater(dfile, acc[h].now)
    /\ stamps' = stamps \cup {acc[h].now}
    /\ acc' = [acc EXCEPT ![h].pc = "done"]
    /\ UNCHANGED <<wall, wallTicks, checks, restOfStamp>>

\* _debounce_flush by another hook process: the batch is taken and deleted.
StampFlush ==
    /\ dfile.exists
    /\ dfile' = NoDFile
    /\ stamps' = {}
    /\ UNCHANGED <<wall, wallTicks, acc, checks, restOfStamp>>

\* Mutant: a batch exactly as old as the window is flushed already.
ShouldFlushAtWindow(state, t) ==
    IF ~state.exists THEN FALSE ELSE (t - state.last_time) >= DEBOUNCE_WINDOW

\* _debounce_should_flush: False without state, else
\* (time.time() - last_time) > DEBOUNCE_WINDOW.
ShouldFlushAt(state, t) ==
    IF ~state.exists THEN FALSE ELSE (t - state.last_time) > DEBOUNCE_WINDOW

\* A hook process calls _debounce_should_flush(project).
StampShouldFlush ==
    /\ Len(checks) < MaxChecks
    /\ checks' = Append(checks, [at |-> wall, found |-> dfile,
                                 result |-> ShouldFlushAt(dfile, wall)])
    /\ UNCHANGED <<wall, wallTicks, dfile, acc, stamps, restOfStamp>>

InitStamp ==
    /\ IdleExcept("stamp")
    /\ wall = WallStart
    /\ wallTicks = 0
    /\ dfile = NoDFile
    /\ acc = [h \in StampHooks |-> InitAcc]
    /\ stamps = {}
    /\ checks = <<>>

NextStamp ==
    \/ WallTick
    \/ \E h \in StampHooks : AccSample(h)
    \/ \E h \in StampHooks : AccUpdate(h)
    \/ StampFlush
    \/ StampShouldFlush

SpecStamp == InitStamp /\ [][NextStamp]_vars

(* ------------------------------------------------------------------ *)
(* The relay inbox: write_inbox, read_inbox, mark_read                *)
(* (hookline/relay.py), called one after the other on one project     *)
(* ------------------------------------------------------------------ *)

\* Relay calls made in one run.
MaxInboxCalls == 4

\* Values uuid4().hex[:12] may take for a message id (two messages may draw
\* the same one).
InboxIds == {"m1", "m2"}

\* A line of inbox.jsonl: a message (n stands for its sender, text and ts:
\* the number of the call that wrote it), or one json.loads rejects.
InboxEntry(msg_id, n) == [kind |-> "msg", id |-> msg_id, n |-> n, read |-> FALSE]
JunkLine == [kind |-> "junk", id |-> "", n |-> 0, read |-> FALSE]

\* message_ids: None, or a list of ids.
MarkAll == [all |-> TRUE, ids |-> {}]
MarkArgs == {MarkAll} \cup {[all |-> FALSE, ids |-> S] : S \in SUBSET InboxIds}

InboxCall(op, arg, result) ==
    inboxLog' = Append(inboxLog, [op |-> op, arg |-> arg, result |-> result])

\* write_inbox: append one entry with "read": false and return its id; an
\* OSError is logged and raised again.
WriteInbox ==
    /\ Len(inboxLog) < MaxInboxCalls
    /\ \E msg_id \in InboxIds, ok \in BOOLEAN :
        /\ IF ok
           THEN /\ inboxExists' = TRUE
                /\ inboxLines' = Append(inboxLines, InboxEntry(msg_id, Len(inboxLog) + 1))
           ELSE UNCHANGED <<inboxExists, inboxLines>>
        /\ InboxCall("write", msg_id, IF ok THEN "ok" ELSE "OSError")
    /\ UNCHANGED restOfInbox

\* The loop of read_inbox: lines that do not parse are skipped, and so are
\* read messages when unread_only.
ReadLines(lines, unread_only) ==
    SelectSeq(lines, LAMBDA l : l.kind = "msg" /\ ~(unread_only /\ l.read))

\* read_inbox
ReadInbox ==
    /\ Len(inboxLog) < MaxInboxCalls
    /\ \E unread_only \in BOOLEAN :
        InboxCall("read", unread_only,
                  IF inboxExists THEN ReadLines(inboxLines, unread_only) ELSE <<>>)
    /\ UNCHANGED <<inboxExists, inboxLines, restOfInbox>>

\* One line as mark_read writes it back.
MarkLine(line, message_ids) ==
    IF /\ line.kind = "msg"
       /\ ~line.read
       /\ message_ids.all \/ line.id \in message_ids.ids
    THEN [line EXCEPT !.read = TRUE]
    ELSE line

\* Mutant: a message that is already read is counted again.
MarkedRecounted(lines, message_ids) ==
    Cardinality({i \in 1..Len(lines) :
                    /\ lines[i].kind = "msg"
                    /\ message_ids.all \/ lines[i].id \in message_ids.ids})

\* marked: the lines whose "read" the loop of mark_read set.
Marked(lines, message_ids) ==
    Cardinality({i \in 1..Len(lines) : MarkLine(lines[i], message_ids) # lines[i]})

\* mark_read: the file is rewritten line by line under the exclusive lock.
MarkRead ==
    /\ Len(inboxLog) < MaxInboxCalls
    /\ \E message_ids \in MarkArgs :
        /\ InboxCall("mark", message_ids,
                     IF inboxExists THEN Marked(inboxLines, message_ids) ELSE 0)
        /\ inboxLines' = [i \in 1..Len(inboxLines) |-> MarkLine(inboxLines[i], message_ids)]
    /\ UNCHANGED <<inboxExists, restOfInbox>>

InitInbox ==
    /\ IdleExcept("inbox")
    /\ inboxLog = <<>>
    /\ \/ inboxExists = FALSE /\ inboxLines = <<>>
       \/ inboxExists = TRUE /\ inboxLines \in {<<>>, <<JunkLine>>}

NextInbox ==
    \/ WriteInbox
    \/ ReadInbox
    \/ MarkRead

SpecInbox == InitInbox /\ [][NextInbox]_vars

(* ------------------------------------------------------------------ *)
(* The daemon's poll loop: serve() (hookline/serve.py, lines 26-71)   *)
(* and the Telegram server it polls                                   *)
(* ------------------------------------------------------------------ *)

\* Updates that arrive in one run of the daemon, and getUpdates calls it
\* makes.
MaxUpdates == 3
MaxPolls == 3

\* allowed_updates: ["callback_query", "message"]
UpdateKinds == {"callback_query", "message"}

\* What serve() calls for an update of each kind.
HandlerOf(kind) ==
    IF kind = "callback_query" THEN "_handle_button" ELSE "_handle_message"

\* How a handler call ends: it returns; a command handler raises and
\* dispatch() catches it (commands.py 39-49) and returns; an Exception
\* reaches serve().
HandlerOutcomes(kind) ==
    IF kind = "message" THEN {"return", "caught by dispatch", "raise"}
                        ELSE {"return", "raise"}

\* One call serve() made: arg is the offset or the update_id, n the number
\* of updates a getUpdates returned.
ServeCall(call, arg, outcome, n) ==
    srvTrace' = Append(srvTrace, [call |-> call, arg |-> arg, outcome |-> outcome,
                                  n |-> n])

\* A human presses a button or sends a message: the server queues an update
\* under the next update_id.
TgArrive ==
    /\ tgSent < MaxUpdates
    /\ \E kind \in UpdateKinds :
        tgQueue' = Append(tgQueue, [update_id |-> tgSent + 1, kind |-> kind])
    /\ tgSent' = tgSent + 1
    /\ UNCHANGED <<srv, srvPid, srvTrace, restOfServe>>

\* getUpdates(offset): the server forgets the updates below offset and
\* returns those it holds, oldest first.
TgConfirm(queue, offset) == SelectSeq(queue, LAMBDA u : u.update_id >= offset)

\* Lines 28-41: the PID file is written, offset = 0.
ServeStartup ==
    /\ srv.pc = "start"
    /\ srvPid' = TRUE
    /\ srv' = [srv EXCEPT !.pc = "poll", !.offset = 0]
    /\ UNCHANGED <<tgQueue, tgSent, srvTrace, restOfServe>>

\* Lines 45-53 and 65-67: one getUpdates call. It returns None or a reply
\* that is not ok (sleep, continue), raises (logged, sleep), or returns the
\* updates the server holds, all or the oldest of them.
ServePoll ==
    /\ srv.pc = "poll"
    /\ srv.polls < MaxPolls
    /\ \E outcome \in {"ok", "none", "raise"} :
        IF outcome = "ok"
        THEN \E n \in 0..Len(TgConfirm(tgQueue, srv.offset)) :
                /\ n = 0 => TgConfirm(tgQueue, srv.offset) = <<>>
                /\ tgQueue' = TgConfirm(tgQueue, srv.offset)
                /\ srv' = [srv EXCEPT !.polls = @ + 1,
                                      !.result = SubSeq(tgQueue', 1, n),
                                      !.pc = IF n = 0 THEN "poll" ELSE "handle"]
                /\ ServeCall("getUpdates", srv.offset, "ok", n)
        ELSE /\ srv' = [srv EXCEPT !.polls = @ + 1]
             /\ ServeCall("getUpdates", srv.offset, outcome, 0)
             /\ UNCHANGED tgQueue
    /\ UNCHANGED <<srvPid, tgSent, restOfServe>>

\* Mutant: the offset stays on the update being handled.
OffsetAfterSame(update_id) == update_id

\* Line 56: offset = update["update_id"] + 1
OffsetAfter(update_id) == update_id + 1

\* Mutant: no except Exception around the loop body.
AfterHandlerUncaught(outcome, rest) ==
    IF outcome = "raise" THEN "stopped"
    ELSE IF rest = <<>> THEN "poll" ELSE "handle"

\* Where serve() goes after a handler call: on to the next update of the
\* result, or back to getUpdates when the result is exhausted or an
\* Exception was caught (lines 65-67: logged, sleep).
AfterHandler(outcome, rest) ==
    IF outcome = "raise" \/ rest = <<>> THEN "poll" ELSE "handle"

\* Lines 55-61: the next update of the poll result.
ServeHandle ==
    /\ srv.pc = "handle"
    /\ LET update == Head(srv.result) IN
       \E outcome \in HandlerOutcomes(update.kind) :
        LET next == AfterHandler(outcome, Tail(srv.result)) IN
        /\ srv' = [srv EXCEPT !.offset = OffsetAfter(update.update_id),
                              !.result = IF next = "handle" THEN Tail(srv.result) ELSE <<>>,
                              !.pc = next]
        /\ srvPid' = (srvPid /\ next # "stopped")       \* finally, line 71
        /\ ServeCall(HandlerOf(update.kind), update.update_id, outcome, 0)
    /\ UNCHANGED <<tgQueue, tgSent, restOfServe>>

\* Lines 63-64 and 68-71: Ctrl+C; KeyboardInterrupt leaves the loop and the
\* PID file is unlinked.
ServeInterrupt ==
    /\ srv.pc \in {"poll", "handle"}
    /\ srv' = [srv EXCEPT !.pc = "stopped", !.result = <<>>]
    /\ srvPid' = FALSE
    /\ ServeCall("KeyboardInterrupt", srv.offset, "Stopped.", 0)
    /\ UNCHANGED <<tgQueue, tgSent, restOfServe>>

InitServeLoop ==
    /\ IdleExcept("serve")
    /\ srv = InitServe
    /\ srvPid = FALSE
    /\ tgQueue = <<>>
    /\ tgSent = 0
    /\ srvTrace = <<>>

NextServe ==
    \/ TgArrive
    \/ ServeStartup
    \/ ServePoll
    \/ ServeHandle
    \/ ServeInterrupt

SpecServe == InitServeLoop /\ [][NextServe]_vars

(* ------------------------------------------------------------------ *)
(* Properties of the approval rendezvous                              *)
(* ------------------------------------------------------------------ *)

LastAnswer(as) == as[Len(as)]

RejectedTexts == {"Unauthorized", "Not authorized for approvals"}

ExpiredTexts == {"Approval expired or already handled",
                 "Approval expired (pipe gone)",
                 "Approval expired (hook timed out)"}

DeliveredTexts == {"Approved", "Blockd"}

TimedOutDecision == [decision |-> "block", reason |-> "Timed out"]

NotRunningDecision == [decision |-> "block", reason |-> "Serve daemon not running"]

\* The hook's select/read has returned and its read end is closed.
WaitEnded(id) ==
    \E h \in Hooks :
        /\ hook[h].created
        /\ hook[h].approval_id = id
        /\ hook[h].pc \in {"finish", "unlink", "clear", "done"}

\* C1 (fail-closed): with approval enabled and dry-run off, every decision
\* the hook prints is approve or block, and it prints approve only when the
\* bytes it read from its own pipe are exactly "approve", which the daemon
\* wrote there for a press of the approval principal; after a timeout, a
\* failed mkfifo, a failed send, a daemon that is down, an empty or an
\* unrecognised payload, whatever it prints is block.
C1_FailClosed ==
    \A h \in Hooks :
        hook[h].mode = "live" =>
            \A k \in 1..Len(stdout[h]) :
                /\ stdout[h][k].decision \in {"approve", "block"}
                /\ stdout[h][k].decision = "approve" =>
                      /\ hook[h].decision_raw = "approve"
                      /\ ~hook[h].timedOut
                      /\ \E j \in 1..Len(answers) :
                            answers[j] = [approval_id |-> hook[h].approval_id,
                                          decision |-> "approve",
                                          sender |-> APPROVAL_USER,
                                          text |-> "Approved"]

C1_Witness ==
    \E h \in Hooks :
        /\ hook[h].mode = "live"
        /\ hook[h].pc = "done"
        /\ stdout[h] = <<[decision |-> "approve"]>>

\* C2 (timeout): a hook whose wait ended with nothing readable prints
\* {"decision": "block", "reason": "Timed out"} and nothing else, also when
\* a press is written to the pipe or into the record after the timeout.
C2_TimedOutBlocks ==
    \A h \in Hooks :
        hook[h].timedOut =>
            /\ \A k \in 1..Len(stdout[h]) : stdout[h][k] = TimedOutDecision
            /\ (hook[h].pc \in {"unlink", "clear", "done"} /\ ~hook[h].raised)
                  => stdout[h] = <<TimedOutDecision>>

C2_Witness ==
    \E h \in Hooks :
        /\ hook[h].timedOut
        /\ hook[h].pc = "done"
        /\ stdout[h] = <<TimedOutDecision>>
        /\ hook[h].user_name # ""
        /\ \E j \in 1..Len(answers) :
              /\ answers[j].approval_id = hook[h].approval_id
              /\ answers[j].text = "Approved"

\* C3 (exactly one decision): a hook that ran with approval enabled has
\* printed exactly one decision when it terminates, on every path, and never
\* more than one.
C3_ExactlyOneDecision ==
    \A h \in Hooks :
        /\ Len(stdout[h]) <= 1
        /\ (hook[h].pc = "done" /\ hook[h].mode \in {"live", "dryrun"})
              => Len(stdout[h]) = 1

\* C4 (exactly-once resolution): of two presses the daemon handled for the
\* approval of a hook, the first of which was delivered, the second is
\* answered as expired or already handled, and the decision the hook prints
\* is the decision of the first.
C4_SecondPressExpired ==
    \A h \in Hooks :
        hook[h].created =>
            \A i, j \in 1..Len(answers) :
                ( /\ i < j
                  /\ answers[i].approval_id = hook[h].approval_id
                  /\ answers[j].approval_id = hook[h].approval_id
                  /\ answers[i].text \in DeliveredTexts
                  /\ answers[j].text \notin RejectedTexts )
                => /\ answers[j].text \in ExpiredTexts
                   /\ \A k \in 1..Len(stdout[h]) :
                         stdout[h][k].decision = answers[i].decision

\* C5 (cleanup): whenever a hook that created a pipe leaves
\* _handle_pre_tool_use, by return or by exception, its pipe and its record
\* are gone and each was removed by exactly one call.
C5_CleanupOnEveryExit ==
    [][\A h \in Hooks :
          (hook[h].pc # "done" /\ hook'[h].pc = "done" /\ hook[h].created)
          => /\ \A a \in ApprovalIds : path'[a] # h
             /\ record'[hook[h].approval_id] = NoDoc
             /\ removed'[h] = [pipe |-> 1, record |-> 1]]_vars

C5_Witness ==
    \E h \in Hooks :
        /\ hook[h].pc = "done"
        /\ hook[h].created
        /\ hook[h].raised
        /\ removed[h] = [pipe |-> 1, record |-> 1]
        /\ record[hook[h].approval_id] = NoDoc
        /\ \A a \in ApprovalIds : path[a] # h

C7_LateSignalExpired ==
    [][(/\ Len(answers') = Len(answers) + 1
        /\ daemon.pc \in {"idle", "exists", "open"}
        /\ LastAnswer(answers').text \notin RejectedTexts
        /\ WaitEnded(LastAnswer(answers').approval_id))
       => LastAnswer(answers').text \in ExpiredTexts]_vars

\* C8 (authorization): a press whose sender is not the approval principal is
\* answered as rejected and changes no record, no pipe and nothing of the
\* hook; only the principal's press gets past the sender checks.
C8_UnauthorizedNoEffect ==
    [][/\ (/\ Len(answers') = Len(answers) + 1
           /\ LastAnswer(answers').sender # APPROVAL_USER)
          => /\ LastAnswer(answers').text \in RejectedTexts
             /\ daemon' = IdleDaemon
             /\ UNCHANGED <<path, fifo, record, hook, stdout, auditLog>>
       /\ daemon'.pc # "idle" => daemon'.user_name = APPROVAL_USER]_vars

C8_Witness ==
    \E h \in Hooks :
        /\ hook[h].pc = "select"
        /\ record[hook[h].approval_id] = NewRecord(hook[h].approval_id)
        /\ fifo[h].buf = ""
        /\ \E j \in 1..Len(answers) :
              /\ answers[j].approval_id = hook[h].approval_id
              /\ answers[j].text = "Not authorized for approvals"

\* C9 (audit): a hook that printed a decision for a terminal transition
\* (decided, timed out, daemon not running) and whose append did not fail has
\* exactly one record in the audit log carrying that decision and reason.
C9_AuditEveryTerminal ==
    \A h \in Hooks :
        (/\ hook[h].mode = "live"
         /\ hook[h].pc = "done"
         /\ hook[h].audit # "audit_error"
         /\ stdout[h] # <<>>
         /\ stdout[h][1] \in {NotRunningDecision, TimedOutDecision,
                              [decision |-> "approve"], [decision |-> "block"]})
        => \E k \in 1..Len(auditLog) :
              /\ OutputDecision(auditLog[k].decision, auditLog[k].reason) = stdout[h][1]
              /\ auditLog[k].approval_id = hook[h].approval_id
              /\ \A m \in 1..Len(auditLog) :
                    auditLog[m].approval_id = hook[h].approval_id => m = k

(* ------------------------------------------------------------------ *)
(* Properties of the key-value state                                  *)
(* ------------------------------------------------------------------ *)

\* A process inside _locked_update, after its read and before its write.
InCriticalSection(p) ==
    /\ proc[p].op = "update"
    /\ proc[p].pc \in {"trunc", "wdata", "replace"}

\* The document as a reader would see it.
DocView == IF docName = NoFile THEN <<"absent">>
           ELSE <<"file", fileContent[docName]>>

\* C10 (one critical section): while a process is between the read and the
\* write of its _locked_update, no step of another process (another
\* _locked_update, a plain _write_state) changes the document; and when every
\* process has applied its increment through _locked_update, the count has
\* grown by the number of processes.
C10_OneCriticalSection ==
    [][/\ \A p \in Procs :
            (InCriticalSection(p) /\ proc'[p] = proc[p]
             /\ \E q \in Procs : proc'[q] # proc[q] /\ proc[q].op \in {"update", "write"})
            => DocView' = DocView
       /\ (\A p \in Procs : proc'[p].pc = "done" /\ proc'[p].op = "update")
            => DocView' = <<"file", Valid(count0 + Cardinality(Procs))>>]_vars

\* With updaters only: mutual exclusion, and every increment is counted.
KV_UpdatersCounted ==
    (\A p \in Procs : proc[p].op \in {"", "update"}) =>
        /\ \A p, q \in Procs : InCriticalSection(p) /\ InCriticalSection(q) => p = q
        /\ (\A p \in Procs : proc[p].pc = "done" /\ proc[p].op = "update")
              => DocView = <<"file", Valid(count0 + Cardinality(Procs))>>

\* C11 (state atomicity): at every step of any write through _write_state or
\* _locked_update, including two writers sharing the temporary file, the
\* target file is absent or holds a whole valid document (the prior one or a
\* new one), never an empty or truncated one.
C11_NeverTruncated ==
    docName # NoFile => fileContent[docName].valid

(* ------------------------------------------------------------------ *)
(* Properties of the state file API                                   *)
(* ------------------------------------------------------------------ *)

\* C12 (read never raises, round trip): _read_state returns the empty
\* document, and does not raise, when the file is absent, unreadable or holds
\* invalid content; right after a _write_state(d) that succeeded it returns d;
\* right after a _clear_state it returns the empty document; and _clear_state
\* of an absent file is not an error.
C12_ReadNeverRaises ==
    \A k \in 1..Len(scalls) :
        /\ scalls[k].op = "read" /\ scalls[k].found \notin Docs
              => scalls[k].raised = "" /\ scalls[k].value = EmptyDoc
        /\ scalls[k].op = "read" /\ k > 1 /\ scalls[k-1].op = "write" /\ scalls[k-1].ok
              => scalls[k].raised = "" /\ scalls[k].value = scalls[k-1].arg
        /\ scalls[k].op = "read" /\ k > 1 /\ scalls[k-1].op = "clear" /\ scalls[k-1].ok
              => scalls[k].raised = "" /\ scalls[k].value = EmptyDoc
        /\ scalls[k].op = "clear" => scalls[k].raised = ""

(* ------------------------------------------------------------------ *)
(* Properties of the debounce engine                                  *)
(* ------------------------------------------------------------------ *)

RECURSIVE SumOver(_, _)
SumOver(f, S) ==
    IF S = {} THEN 0
    ELSE LET x == CHOOSE y \in S : TRUE IN f[x] + SumOver(f, S \ {x})

\* Accumulations that took effect (the accumulate has renamed its batch into
\* place or returned), counts that flushes took out (the flush has unlinked),
\* and flushes that returned a batch rather than None.
AccumulatedNow(p) ==
    IF proc[p].op = "update" /\ proc[p].pc \in {"unlock", "done"} THEN 1 ELSE 0
FlushedNow(p) ==
    IF proc[p].op = "flush" /\ proc[p].pc \in {"unlock", "done"} THEN proc[p].data ELSE 0
BatchNow(p) ==
    IF proc[p].op = "flush" /\ proc[p].pc \in {"unlock", "done"} /\ proc[p].data > 0
    THEN 1 ELSE 0
Accumulated == tally.accumulated + SumOver([p \in Procs |-> AccumulatedNow(p)], Procs)
Flushed == tally.flushed + SumOver([p \in Procs |-> FlushedNow(p)], Procs)
Batches == tally.batches + SumOver([p \in Procs |-> BatchNow(p)], Procs)
PendingCount == IF docName # NoFile /\ fileContent[docName].valid
                THEN fileContent[docName].count ELSE 0

\* C13 (flush is a destructive read): when _debounce_flush has unlinked, no
\* batch exists until the next accumulate; a flush that finds no batch
\* returns None; and no more flushes return a batch than there were batches
\* to return (the one pending at the start, and at most one per
\* accumulation), also when flushes run concurrently.
C13_FlushDestructive ==
    /\ \A p \in Procs :
          proc[p].op = "flush" /\ proc[p].pc = "unlock" => docName = NoFile
    /\ Batches <= (IF count0 > 0 THEN 1 ELSE 0) + Accumulated
    /\ Accumulated = 0 => Batches <= 1

\* Two flushes have returned, one of them with the batch and one with None.
C13_Witness ==
    /\ count0 = 1
    /\ Accumulated = 0
    /\ \E p, q \in Procs :
          /\ proc[p].op = "flush" /\ proc[p].pc = "done" /\ proc[p].data = 1
          /\ proc[q].op = "flush" /\ proc[q].pc = "done" /\ proc[q].data = 0

\* C14 (count correctness): every accumulation is counted once: the counts
\* flushes returned plus the count still pending equal the batch pending at
\* the start plus the number of accumulations, in any interleaving; so N
\* accumulations from no batch followed by one flush return N.
C14_CountExact ==
    Flushed + PendingCount = count0 + Accumulated

\* From no batch, three accumulations and then the one flush, which
\* returned 3.
C14_Witness ==
    /\ count0 = 0
    /\ Accumulated = 3
    /\ Batches = 1
    /\ Flushed = 3
    /\ PendingCount = 0

(* ------------------------------------------------------------------ *)
(* Properties of the hook's main()                                    *)
(* ------------------------------------------------------------------ *)

\* The kinds of the messages a hook process sent, in order.
SentKinds(h) == [k \in 1..Len(mhook[h].sent) |-> mhook[h].sent[k].kind]

\* The counts of the batches a hook process flushed, in order, and of the
\* summaries it sent.
FlushedBatches(h) ==
    SelectSeq(mhook[h].flushed, LAMBDA n : n > 0)
SentSummaries(h) ==
    LET summaries == SelectSeq(mhook[h].sent, LAMBDA m : m.kind = "batch")
    IN [k \in 1..Len(summaries) |-> summaries[k].count]

\* C15 (flush before send): a hook that handles Stop or another event that
\* is not debounce-eligible flushes unconditionally before its own message,
\* and the summary of every batch it flushed goes out before that message,
\* which is its last; it always gets to its own message unless a send
\* raised. A debounce-eligible event is accumulated and sends no message of
\* its own.
C15_FlushBeforeSend ==
    \A h \in MainHooks :
        /\ mhook[h].handled /\ mhook[h].event \notin DEBOUNCE_EVENTS
              /\ mhook[h].pc \in {"clear", "done"} /\ ~mhook[h].raised
              => /\ mhook[h].unconditional
                 /\ Len(mhook[h].sent) > 0
                 /\ mhook[h].sent[Len(mhook[h].sent)].kind = "own"
                 /\ \A k \in 1..(Len(mhook[h].sent) - 1) : mhook[h].sent[k].kind = "batch"
                 /\ SentSummaries(h) = FlushedBatches(h)
                 /\ ~mhook[h].accumulated
        /\ mhook[h].handled /\ mhook[h].event \in DEBOUNCE_EVENTS
              => /\ \A k \in 1..Len(mhook[h].sent) : mhook[h].sent[k].kind = "batch"
                 /\ ~mhook[h].unconditional
                 /\ mhook[h].pc = "done" /\ ~mhook[h].raised => mhook[h].accumulated
        /\ ~mhook[h].handled => mhook[h].sent = <<>> /\ mhook[h].flushed = <<>>

\* Three SubagentStop events were accumulated and a Stop then sent the
\* summary of the three before its own message.
C15_Witness ==
    \E h \in MainHooks :
        /\ mhook[h].event = "Stop"
        /\ mhook[h].pc = "done"
        /\ mhook[h].sent = <<[kind |-> "batch", count |-> 3, delivered |-> TRUE],
                             [kind |-> "own", count |-> 0, delivered |-> TRUE]>>

(* ------------------------------------------------------------------ *)
(* Properties of cron expressions                                     *)
(* ------------------------------------------------------------------ *)

\* The numbers written in a part: a single value, both bounds of a range,
\* the base of a stride (unless "*").
WrittenValues(part) ==
    CASE part.kind = "single" -> {part.a}
      [] part.kind = "range" -> {part.a, part.b}
      [] part.kind = "step" -> IF part.a = StarBase THEN {} ELSE {part.a}
      [] OTHER -> {}

\* What the field grammar and the domains forbid.
Malformed(expr) ==
    \/ Len(expr) # 5
    \/ \E k \in 1..Len(expr) : \E j \in 1..Len(expr[k]) :
          LET part == expr[k][j] IN
          \/ part.kind = "range" /\ part.a > part.b
          \/ part.kind = "step" /\ part.b <= 0
          \/ \E v \in WrittenValues(part) : v < FieldMin[k] \/ v > FieldMax[k]

\* C18 (cron field validation): parsing raises a configuration error for a
\* wrong field count, a range with low > high, a non-positive stride, and
\* any value outside its field's domain, be it a single integer, a list
\* element, a range bound or a stride base.
C18_RejectsMalformed ==
    cronParsed # NotParsed /\ Malformed(cronInput) => cronParsed.status = "ValueError"

(* ------------------------------------------------------------------ *)
(* Properties of the scheduler                                        *)
(* ------------------------------------------------------------------ *)

\* Handler calls that returned.
Fires == {k \in 1..Len(fired) : fired[k].ok}

\* The calendar minute (year, month, day, hour, minute) of an epoch time.
CalendarMinute(t) == t \div 60
InOneMinute(a, b) == CalendarMinute(a) = CalendarMinute(b)

C19_ExactlyOneTrigger ==
    [][regs' = regs + 1 =>
        LET cronGiven == lastReg'.cron
            intervalGiven == lastReg'.interval_minutes > 0
            exactlyOne == /\ cronGiven # intervalGiven
                          /\ cronGiven => lastReg'.cron_ok
        IN /\ lastReg'.raised <=> ~exactlyOne
           /\ lastReg'.raised => tasks' = tasks
           /\ ~lastReg'.raised => tasks'[lastReg'.name].registered]_vars

\* C20 (handler isolation): when a due task's handler raises, the tick
\* still completes, every other due task's handler is called in that tick,
\* and the failing task's last-run timestamp stays what it was, in memory
\* (as hydrated) and in the durable map.
C20_HandlerIsolation ==
    [][ticks' = ticks + 1 =>
        LET now == tickLog'[Len(tickLog')].now
            now_ts == tickLog'[Len(tickLog')].ts
            called == {fired'[i].name : i \in (Len(fired) + 1)..Len(fired')}
            failed == {fired'[i].name :
                         i \in {k \in (Len(fired) + 1)..Len(fired') : ~fired'[k].ok}}
        IN /\ \A n \in TaskNames :
                tasks[n].registered /\ ShouldRun(tasks[n], Hydrated(n), now, now_ts)
                => n \in called
           /\ \A n \in failed :
                /\ tasks'[n].last_run = Hydrated(n)
                /\ runState'[n] = runState[n]]_vars

\* One tick called two handlers: the first raised, the second ran.
C20_Witness ==
    \E i, j \in 1..Len(fired) :
        /\ i < j
        /\ fired[i].tick = fired[j].tick
        /\ ~fired[i].ok
        /\ fired[j].ok
        /\ runState[fired[i].name] = 0
        /\ runState[fired[j].name] = fired[j].ts

\* The handlers the tick being taken calls, and its two clock readings.
CalledNow == {fired'[i].name : i \in (Len(fired) + 1)..Len(fired')}
TickNow == tickLog'[Len(tickLog')].now
TickTs == tickLog'[Len(tickLog')].ts

RanNow ==
    {fired'[i].name : i \in {k \in (Len(fired) + 1)..Len(fired') : fired'[k].ok}}

\* C29 (written only when something fired): a tick in which no handler
\* returned (none due, or every due handler raised) does not write
\* scheduler.json and leaves the map as it was; a tick in which one did
\* writes once, the whole map: the tick's timestamp for every task that
\* fired, and for every other name the value it had.
C29_WrittenOnlyWhenFired ==
    [][ticks' = ticks + 1 =>
        /\ RanNow = {} => /\ tickLog'[Len(tickLog')].saves = 0
                          /\ runState' = runState
        /\ RanNow # {} => /\ tickLog'[Len(tickLog')].saves = 1
                          /\ \A n \in TaskNames :
                                runState'[n] = IF n \in RanNow THEN TickTs
                                               ELSE runState[n]]_vars

\* One task fired in the first tick while the other's handler raised; the
\* second tick fired the other and kept the first one's entry; in the third
\* tick every due handler raised and nothing was written.
C29_Witness ==
    /\ Len(tickLog) = 3
    /\ tickLog[1].saves = 1 /\ tickLog[2].saves = 1 /\ tickLog[3].saves = 0
    /\ tickLog[1].ts # tickLog[2].ts
    /\ \E n, m \in TaskNames :
          /\ runState[n] = tickLog[1].ts
          /\ runState[m] = tickLog[2].ts
          /\ \E i \in 1..Len(fired) : fired[i].tick = 1 /\ fired[i].name = m /\ ~fired[i].ok
    /\ \E i \in 1..Len(fired) : fired[i].tick = 3 /\ ~fired[i].ok

\* C30 (one consistent now per tick): the handler calls of one tick were
\* all decided on the same two clock readings; the timestamp a fire records
\* lies in the calendar minute its cron expression was matched against; and
\* whenever a tick finds a cron task matching, that task's handler is or was
\* called for that calendar minute, so no fire recorded earlier suppresses
\* the fire of a later minute.
C30_OneNow ==
    /\ \A i, j \in 1..Len(fired) :
          fired[i].tick = fired[j].tick
          => fired[i].now = fired[j].now /\ fired[i].ts = fired[j].ts
    /\ \A i \in Fires : fired[i].cron => InOneMinute(fired[i].ts, fired[i].now)
    /\ \A k \in 1..Len(tickLog) : \A n \in TaskNames :
          tasks[n].registered /\ tasks[n].cron_expr # NotParsed
             /\ Matches(tasks[n].cron_expr, tickLog[k].now)
          => \E i \in 1..Len(fired) :
                /\ fired[i].name = n
                /\ fired[i].tick <= k
                /\ InOneMinute(fired[i].now, tickLog[k].now)

CollisionDecision == [decision |-> "block", reason |-> "Internal error: EEXIST"]

\* C25 (identity collision): when the hook's mkfifo finds a pipe already at
\* the path of the approval_id it chose, the hook ends there: it prints
\* block, announces nothing, never waits, and the pipe and the record of the
\* approval that owns the id stay as they were.
C25_CollisionFailsLoudly ==
    [][\A h \in Hooks :
          (hook[h].pc = "mkfifo" /\ hook'[h].pc # "mkfifo"
           /\ path[hook'[h].approval_id] # NoInode)
          => /\ hook'[h].pc = "done"
             /\ ~hook'[h].created
             /\ stdout'[h] = <<CollisionDecision>>
             /\ UNCHANGED <<path, fifo, record, announced, removed>>]_vars

\* The hook drew the id of the orphaned approval and ended with block; the
\* orphan's pipe and record are still there.
C25_Witness ==
    \E h \in Hooks :
        /\ hook[h].pc = "done"
        /\ hook[h].approval_id = OrphanId
        /\ ~hook[h].created
        /\ stdout[h] = <<CollisionDecision>>
        /\ path[OrphanId] = OrphanInode
        /\ record[OrphanId] # NoDoc
        /\ announced = {}

\* C26 (record lifecycle): a record comes into being only by the hook's
\* write of the new ApprovalRequest, goes away only by the hook's cleanup,
\* and in between changes at most once: the daemon writes decision metadata
\* only into a record that carries none yet.
C26_RecordLifecycle ==
    [][\A a \in ApprovalIds :
          /\ (record[a] = NoDoc /\ record'[a] # NoDoc)
                => \E h \in Hooks : /\ hook[h].pc = "persist"
                                    /\ hook[h].approval_id = a
                                    /\ record'[a] = NewRecord(a)
          /\ (record[a] # NoDoc /\ record'[a] = NoDoc)
                => \E h \in Hooks : hook[h].pc = "clear" /\ hook[h].approval_id = a
          /\ (record[a] # NoDoc /\ record'[a] # NoDoc /\ record'[a] # record[a])
                => record[a].decided_by = "" /\ record[a].decision = ""]_vars

\* The hook has opened its pipe and waits on it.
Waiting(h) == hook[h].pc = "select"

OverTexts == {"Approval expired (pipe gone)", "Approval expired (hook timed out)"}

\* The hook has announced the approval and its wait has not ended.
StillToWait(h, id) ==
    /\ hook[h].created
    /\ hook[h].approval_id = id
    /\ id \in announced
    /\ hook[h].pc \in {"persist", "open", "select"}

\* C22 (decision delivery): a press of the approval principal that the
\* daemon answers while the hook of that approval has announced it and has
\* not ended its wait is answered as delivered; and a hook whose wait ends
\* in a timeout has no press of the principal behind it that was answered as
\* expired.
C22_DecisionDelivered ==
    [][/\ (/\ Len(answers') = Len(answers) + 1
           /\ LastAnswer(answers').sender = APPROVAL_USER
           /\ LastAnswer(answers').sender = CHAT_ID
           /\ \E h \in Hooks : StillToWait(h, LastAnswer(answers').approval_id))
          => LastAnswer(answers').text \in DeliveredTexts
       /\ \A h \in Hooks :
             (hook[h].pc = "select" /\ hook'[h].timedOut)
             => ~\E j \in 1..Len(answers) :
                    /\ answers[j].approval_id = hook[h].approval_id
                    /\ answers[j].sender = APPROVAL_USER
                    /\ answers[j].text \in OverTexts]_vars

\* C24 (bounded wait): a hook that waits on its pipe leaves the wait, by a
\* signal or by the timeout, whatever the daemon does from then on.
C24_BoundedWait ==
    \A h \in Hooks : (hook[h].pc = "select") ~> (hook[h].pc # "select")

\* The hook left its wait by the timeout: no press was ever handled and the
\* daemon had stopped.
C24_Witness ==
    \E h \in Hooks :
        /\ hook[h].timedOut
        /\ hook[h].pc = "close"
        /\ ~serveAlive
        /\ presses = 0

(* ------------------------------------------------------------------ *)
(* Properties of the debounce timestamps                              *)
(* ------------------------------------------------------------------ *)

Earliest(S) == CHOOSE x \in S : \A y \in S : x <= y
Latest(S) == CHOOSE x \in S : \A y \in S : x >= y

\* C27 (chronological extremes): the batch's first_time is the earliest and
\* its last_time the latest of the timestamps of the events accumulated
\* into it, in whatever order the hook processes got the lock.
C27_ChronologicalExtremes ==
    dfile.exists
    => /\ stamps # {}
       /\ dfile.first_time = Earliest(stamps)
       /\ dfile.last_time = Latest(stamps)

\* C28 (should-flush is a pure read): a call of _debounce_should_flush
\* changes nothing, and returns true exactly when it found a batch whose
\* last_time lies more than DEBOUNCE_WINDOW before the time of the call.
C28_ShouldFlushPureRead ==
    [][Len(checks') = Len(checks) + 1 =>
        LET c == checks'[Len(checks')] IN
        /\ c.found = dfile /\ c.at = wall
        /\ dfile' = dfile
        /\ stamps' = stamps
        /\ c.result <=> (dfile.exists /\ wall > dfile.last_time + DEBOUNCE_WINDOW)]_vars

\* A batch exactly as old as the window was not to be flushed; a second
\* later it was, and it was still the same batch.
C28_Witness ==
    /\ Len(checks) = 2
    /\ checks[1].found.exists
    /\ checks[1].at = checks[1].found.last_time + DEBOUNCE_WINDOW
    /\ ~checks[1].result
    /\ checks[2].found = checks[1].found
    /\ checks[2].at = checks[1].at + 1
    /\ checks[2].result
    /\ dfile = checks[1].found

(* ------------------------------------------------------------------ *)
(* Properties of the approval rendezvous, continued                   *)
(* ------------------------------------------------------------------ *)

\* The hook h created the pipe of its approval and has returned.
Terminated(h) == hook[h].created /\ hook[h].pc = "done"

\* C37 (no resurrected approval record): once a hook that created an
\* approval has terminated, neither the ApprovalRequest record nor the
\* rendezvous pipe of its approval_id exists, whatever the daemon does with
\* presses for that approval_id.
C37_NoResurrectedRecord ==
    \A h \in Hooks :
        Terminated(h)
        => /\ record[hook[h].approval_id] = NoDoc
           /\ path[hook[h].approval_id] = NoInode

\* The audit line and the decision the hook printed (both exist once the
\* hook has passed lines 236-270 with the audit log writable).
Audited(h) == hook[h].audit = "ok" /\ hook[h].pc \in {"unlink", "clear", "done"}

AuditLineOf(h) ==
    CHOOSE e \in {auditLog[i] : i \in 1..Len(auditLog)} :
        e.approval_id = hook[h].approval_id

\* A press by `who` whose decision the daemon wrote into the pipe.
Delivered(id, decision, who) ==
    \E i \in 1..Len(answers) :
        /\ answers[i].approval_id = id
        /\ answers[i].decision = decision
        /\ answers[i].sender = who
        /\ answers[i].text \in DeliveredTexts

\* C38 (audit consistency): in the audit record of an approval, decided_by
\* is non-empty only if the decision the hook printed was read from the pipe
\* and decided_by is the actor whose press delivered that decision; an
\* approval resolved by timeout has an empty decided_by; and the record's
\* decision is the decision the hook printed.
C38_AuditConsistent ==
    \A h \in Hooks :
        Audited(h)
        => LET e == AuditLineOf(h)
               out == stdout[h][Len(stdout[h])] IN
           /\ e.decision = out.decision
           /\ hook[h].timedOut => e.decided_by = ""
           /\ e.decided_by # ""
              => /\ hook[h].decision_raw = out.decision
                 /\ Delivered(hook[h].approval_id, out.decision, e.decided_by)

\* The approval `id` is pending: announced, its pipe and its record exist.
Pending(id) ==
    id \in announced /\ path[id] # NoInode /\ record[id] # NoDoc

\* C39 (the approval principal can approve): a press by APPROVAL_USER for a
\* pending approval is never answered "Unauthorized" by the button dispatch,
\* also when APPROVAL_USER differs from CHAT_ID.
C39_PrincipalCanApprove ==
    [][\A id \in ApprovalIds :
        ( /\ Pending(id)
          /\ Len(answers') = Len(answers) + 1
          /\ LastAnswer(answers').approval_id = id
          /\ LastAnswer(answers').sender = APPROVAL_USER )
        => LastAnswer(answers').text # "Unauthorized"]_vars

(* ------------------------------------------------------------------ *)
(* Properties of cron matching                                        *)
(* ------------------------------------------------------------------ *)

\* The values one part of a field lists within min_val..max_val: N itself,
\* every value from low to high, or base, base+step, base+2*step, ... with
\* base "*" standing for the field minimum.
Listed(part, min_val, max_val) ==
    CASE part.kind = "single" -> {v \in min_val..max_val : v = part.a}
      [] part.kind = "range" -> {v \in min_val..max_val : part.a <= v /\ v <= part.b}
      [] part.kind = "step" ->
            LET base == IF part.a = StarBase THEN min_val ELSE part.a IN
            {v \in min_val..max_val : v >= base /\ (v - base) % part.b = 0}
      [] OTHER -> {}

\* Days of the week, Monday first; 1 January 1970 was a Thursday.
WeekdayNames == <<"Mon", "Tue", "Wed", "Thu", "Fri", "Sat", "Sun">>
NamedWeekday(t) == WeekdayNames[1 + (((t \div 86400) + 3) % 7)]

\* The component of the datetime t that field k is compared with.
Component(k, t) ==
    CASE k = 1 -> MinuteOf(t)
      [] k = 2 -> HourOf(t)
      [] k = 3 -> DayOf(t)
      [] k = 4 -> MonthOf(t)
      [] OTHER -> CHOOSE w \in 0..6 : WeekdayNames[w + 1] = NamedWeekday(t)

\* Field k of the expression is "*" or lists the component of t.
FieldContains(k, t) ==
    \/ cronInput[k] = <<Star>>
    \/ \E i \in 1..Len(cronInput[k]) :
          Component(k, t) \in Listed(cronInput[k][i], FieldMin[k], FieldMax[k])

\* C34 (cron matching): for a valid expression and a datetime, matches(dt)
\* is true iff every field that is not "*" contains the corresponding
\* component of dt (minute, hour, day of month, month, weekday counted from
\* Monday = 0), a list, a range and a stride denoting the values they list.
C34_CronMatching ==
    cronAt # NoTime
    => (cronMatched <=> \A k \in 1..5 : FieldContains(k, cronAt))

\* matches() answered True for an expression whose weekday field is a
\* stride, and False for one whose day-of-month field is a range.
C34_Witness ==
    /\ cronAt # NoTime
    /\ cronMatched
    /\ cronInput[5] # <<Star>>
    /\ cronInput[5][1].kind = "step"
    /\ cronInput[5][1].a # StarBase

(* ------------------------------------------------------------------ *)
(* Properties of the relay inbox                                      *)
(* ------------------------------------------------------------------ *)

\* The messages written by the first k calls (a message is named by the
\* number of the write_inbox call that returned its id).
WrittenBy(k) ==
    {i \in 1..k : inboxLog[i].op = "write" /\ inboxLog[i].result = "ok"}

\* Call j is a mark_read that selects the message written by call i.
Selects(j, i) ==
    /\ inboxLog[j].op = "mark"
    /\ i < j
    /\ inboxLog[j].arg.all \/ inboxLog[i].arg \in inboxLog[j].arg.ids

\* The messages no mark_read among the first k calls selected.
UnreadAfter(k) ==
    {i \in WrittenBy(k) : ~\E j \in 1..k : Selects(j, i)}

\* The sequence r lists exactly the messages of S, in the order written.
ListsInOrder(r, S) ==
    /\ Len(r) = Cardinality(S)
    /\ \A x \in 1..Len(r) : r[x].n \in S /\ r[x].id = inboxLog[r[x].n].arg
    /\ \A x \in 1..Len(r), y \in 1..Len(r) : x < y => r[x].n < r[y].n

\* C35 (inbox read marks): after any sequence of write_inbox and mark_read
\* calls, read_inbox(unread_only=True) returns, in append order, exactly the
\* written messages no mark_read selected, and read_inbox(unread_only=False)
\* all of them; mark_read returns the number of unread messages it selected,
\* and 0 when it repeats the call before it.
C35_InboxReadMarks ==
    \A k \in 1..Len(inboxLog) :
        LET c == inboxLog[k] IN
        /\ c.op = "read"
           => /\ c.arg => ListsInOrder(c.result, UnreadAfter(k - 1))
              /\ ~c.arg => ListsInOrder(c.result, WrittenBy(k - 1))
        /\ c.op = "mark"
           => /\ c.result = Cardinality({i \in UnreadAfter(k - 1) : Selects(k, i)})
              /\ (k > 1 /\ inboxLog[k - 1].op = "mark" /\ inboxLog[k - 1].arg = c.arg)
                 => c.result = 0

\* Two messages were written, one of them marked, and the unread one read
\* back.
C35_Witness ==
    /\ Len(inboxLog) = 4
    /\ inboxLog[1].op = "write" /\ inboxLog[2].op = "write"
    /\ inboxLog[3].op = "mark" /\ inboxLog[3].result = 1
    /\ inboxLog[4].op = "read" /\ inboxLog[4].arg /\ Len(inboxLog[4].result) = 1

(* ------------------------------------------------------------------ *)
(* Properties of the hook's main(), continued                         *)
(* ------------------------------------------------------------------ *)

\* C36 (debounce conservation): under any interleaving of the hook processes
\* of one project, events leave the pending batch only by a flush, which
\* hands all of them to the one process that renders the summary; no
\* accumulated event is dropped without having been part of a flushed
\* summary.
C36_DebounceConservation ==
    [][batch'.count < batch.count
       => \E h \in MainHooks :
             /\ mhook'[h].flushed = Append(mhook[h].flushed, batch.count)
             /\ \A g \in MainHooks \ {h} : mhook'[g] = mhook[g]]_vars

(* ------------------------------------------------------------------ *)
(* Properties of the daemon's poll loop                               *)
(* ------------------------------------------------------------------ *)

\* Positions of the trace where an iteration of the loop begins.
PollsAt == {i \in 1..Len(srvTrace) : srvTrace[i].call = "getUpdates"}

\* Iteration i (begun at position i) is over: another one has begun.
NextPollAfter(i) == CHOOSE j \in PollsAt : j > i /\ \A k \in PollsAt : k > i => j <= k

\* C31 (the scheduler runs in the poll loop): every iteration of the serve
\* loop, from one getUpdates call to the next, calls the scheduler's tick
\* exactly once.
C31_TickEveryIteration ==
    \A i \in PollsAt :
        (\E j \in PollsAt : j > i)
        => Cardinality({k \in i..NextPollAfter(i) : srvTrace[k].call = "tick"}) = 1

\* The calls that ended with an exception serve() caught, or with a poll
\* that failed.
Failures ==
    {i \in 1..Len(srvTrace) :
        \/ srvTrace[i].call = "getUpdates" /\ srvTrace[i].outcome \in {"none", "raise"}
        \/ srvTrace[i].call \in {"_handle_button", "_handle_message"}
           /\ srvTrace[i].outcome \in {"raise", "caught by dispatch"}}

\* C32 (daemon survival): an exception raised while handling an update, or a
\* failed poll, does not end the serve loop: the loop ends only when the
\* daemon is stopped; the PID file is there while the loop runs and gone
\* once the daemon is stopped.
C32_DaemonSurvives ==
    /\ srv.pc \in {"poll", "handle"} => srvPid
    /\ srv.pc = "stopped"
       => /\ ~srvPid
          /\ srvTrace[Len(srvTrace)].call = "KeyboardInterrupt"
    /\ \A i \in Failures :
          i = Len(srvTrace) => srv.pc \in {"poll", "handle"} /\ srvPid

\* A handler raised, a poll failed, and the daemon polled again.
C32_Witness ==
    /\ srv.pc = "poll"
    /\ srvPid
    /\ \E i \in Failures, j \in Failures, k \in PollsAt :
        /\ srvTrace[i].call = "getUpdates"
        /\ srvTrace[j].call = "_handle_message" /\ srvTrace[j].outcome = "raise"
        /\ i < k /\ j < k

\* The handler calls of the trace, and the update each was made for.
HandledAt == {i \in 1..Len(srvTrace) :
                srvTrace[i].call \in {"_handle_button", "_handle_message"}}
Handled == {srvTrace[i].arg : i \in HandledAt}

\* C33 (inbound ordering): updates are handled one at a time in arrival
\* order and each at most once; the offset only increases and is past an
\* update when it is handled; and an update that was not handled because an
\* earlier one of the same poll result raised is still held by the server
\* for a later getUpdates, not lost.
C33_InboundOrdering ==
    /\ \A i \in HandledAt, j \in HandledAt :
          i < j => srvTrace[i].arg < srvTrace[j].arg
    /\ \A i \in PollsAt, j \in PollsAt :
          i < j => srvTrace[i].arg <= srvTrace[j].arg
    /\ \A id \in Handled : id < srv.offset
    /\ \A id \in 1..tgSent :
          \/ id \in Handled
          \/ /\ id >= srv.offset
             /\ \E x \in 1..Len(tgQueue) : tgQueue[x].update_id = id

\* Updates 1 and 2 came in one poll result, handling 1 raised, and 2 was
\* handled after the next getUpdates.
C33_Witness ==
    \E i \in PollsAt, j \in PollsAt, a \in HandledAt, b \in HandledAt :
        /\ i < a /\ a < j /\ j < b
        /\ srvTrace[i].n = 2
        /\ srvTrace[a].arg = 1 /\ srvTrace[a].outcome = "raise"
        /\ srvTrace[b].arg = 2

====
